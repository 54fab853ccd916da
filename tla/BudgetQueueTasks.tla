-------------------------- MODULE BudgetQueueTasks --------------------------
(***************************************************************************)
(* Counting the bytes that segments hold; the type invariant of BudgetQueue;*)
(* and TaskConsistent, which ties a task to its segments.  For every number*)
(* of streams and tenants and every value of the budgets.                  *)
(***************************************************************************)
EXTENDS BudgetQueue, FiniteSetTheorems, TLAPS

\* The provers a step is given to in turn, with their time limits in seconds.
USE SMTT(20), SMTT(30), ZenonT(20), SMTT(40), SMTT(50), SMTT(60)

-----------------------------------------------------------------------------
(***************************************************************************)
(* Counting held bytes.                                                    *)
(***************************************************************************)

Holdings == [Slots -> 0 .. MaxHeld]

\* The constants are numbers of the kind the arithmetic below needs.
LEMMA ConstantTypes ==
  /\ MaxSegments \in Nat /\ MaxHeld \in Nat
  /\ OutputByteBudget \in Nat /\ GlobalMemoryChunk \in Nat
  /\ OutputByteBudget > 0 /\ GlobalMemoryChunk > 0
  /\ OutputByteBudget <= MaxHeld /\ GlobalMemoryChunk <= MaxHeld
  /\ GlobalMemory \in Nat /\ TenantMemory \in Nat
  /\ MaxActiveStreams \in Nat /\ MaxReloads \in Nat /\ ErrorFrame \in Nat
  /\ IsFiniteSet(Streams)
BY BudgetAssumption DEF MaxHeld

\* There are finitely many slots, and finitely many bytes in any of them.
LEMMA HeldBytesFinite ==
  ASSUME NEW h
  PROVE  IsFiniteSet(HeldBytes(h))
<1>1. IsFiniteSet(0 .. MaxSegments) /\ IsFiniteSet(1 .. MaxHeld)
  BY ConstantTypes, FS_Interval
<1>2. IsFiniteSet(Slots)
  BY <1>1, ConstantTypes, FS_Product, Zenon DEF Slots
<1>3. IsFiniteSet(Slots \X (1 .. MaxHeld))
  BY <1>1, <1>2, FS_Product, Zenon
<1>4. QED
  BY <1>3, FS_Subset DEF HeldBytes

\* What is held is a natural number.
LEMMA HeldType ==
  ASSUME NEW h
  PROVE  Held(h) \in Nat
BY HeldBytesFinite, FS_CardinalityType DEF Held

\* One slot accounts for as many bytes as it holds.
LEMMA SlotBytes ==
  ASSUME NEW p, NEW n \in 0 .. MaxHeld
  PROVE  /\ IsFiniteSet({p} \X (1 .. n))
         /\ Cardinality({p} \X (1 .. n)) = n
<1>1. n \in Nat
  BY ConstantTypes
<1>2. IsFiniteSet(1 .. n) /\ Cardinality(1 .. n) = n
  BY <1>1, FS_Interval
<1>3. IsFiniteSet({p}) /\ Cardinality({p}) = 1
  BY FS_Singleton
<1>4. IsFiniteSet({p} \X (1 .. n)) /\ Cardinality({p} \X (1 .. n)) = 1 * n
  BY <1>2, <1>3, FS_Product, ZenonT(30)
<1>5. QED
  BY <1>1, <1>4

\* Removing the bytes of one slot removes as many bytes as it holds.
LEMMA HeldSplit ==
  ASSUME NEW h \in Holdings, NEW p \in Slots
  PROVE  LET others == {x \in HeldBytes(h) : x[1] # p}
         IN  IsFiniteSet(others) /\ Held(h) = Cardinality(others) + h[p]
<1> DEFINE others == {x \in HeldBytes(h) : x[1] # p}
           mine == {p} \X (1 .. h[p])
<1>1. h[p] \in 0 .. MaxHeld
  BY DEF Holdings
<1>2. HeldBytes(h) = others \cup mine /\ others \cap mine = {}
  BY <1>1, ConstantTypes DEF HeldBytes, Slots
<1>3. IsFiniteSet(others)
  BY HeldBytesFinite, FS_Subset
<1>4. IsFiniteSet(mine) /\ Cardinality(mine) = h[p]
  BY <1>1, SlotBytes, Zenon
<1>5. Cardinality(HeldBytes(h))
        = Cardinality(others) + Cardinality(mine) - Cardinality({})
  BY <1>2, <1>3, <1>4, FS_Union
<1>6. Cardinality({}) = 0 /\ Cardinality(others) \in Nat
  BY <1>3, FS_EmptySet, FS_CardinalityType
<1>7. QED
  BY <1>1, <1>3, <1>4, <1>5, <1>6, ConstantTypes DEF Held

\* Changing what one slot holds changes the total by the difference.
LEMMA HeldUpdate ==
  ASSUME NEW h \in Holdings, NEW g \in Holdings, NEW p \in Slots,
         \A q \in Slots : q # p => g[q] = h[q]
  PROVE  Held(g) = Held(h) - h[p] + g[p]
<1> DEFINE hOthers == {x \in HeldBytes(h) : x[1] # p}
           gOthers == {x \in HeldBytes(g) : x[1] # p}
<1>1. hOthers = gOthers
  BY DEF HeldBytes
<1>2. IsFiniteSet(hOthers) /\ Held(h) = Cardinality(hOthers) + h[p]
  BY HeldSplit
<1>3. Held(g) = Cardinality(gOthers) + g[p]
  BY HeldSplit
<1>4. h[p] \in Nat /\ g[p] \in Nat /\ Cardinality(hOthers) \in Nat
  BY <1>2, FS_CardinalityType, ConstantTypes DEF Holdings
<1>5. Cardinality(gOthers) = Cardinality(hOthers)
  BY <1>1
<1> HIDE DEF hOthers, gOthers
<1>6. QED
  BY <1>2, <1>3, <1>4, <1>5

\* Nothing held anywhere is nothing held.
LEMMA HeldZero ==
  ASSUME NEW h \in Holdings, \A q \in Slots : h[q] = 0
  PROVE  Held(h) = 0
<1>1. HeldBytes(h) = {}
  BY ConstantTypes DEF HeldBytes
<1>2. QED
  BY <1>1, FS_EmptySet DEF Held

\* Holding less in every slot is holding less.
LEMMA HeldMonotone ==
  ASSUME NEW h \in Holdings, NEW g \in Holdings,
         \A q \in Slots : h[q] <= g[q]
  PROVE  Held(h) <= Held(g)
<1>1. HeldBytes(h) \subseteq HeldBytes(g)
  BY ConstantTypes DEF HeldBytes, Holdings
<1>2. QED
  BY <1>1, HeldBytesFinite, FS_Subset DEF Held

-----------------------------------------------------------------------------
(***************************************************************************)
(* Types.                                                                  *)
(***************************************************************************)

\* A waiter that leaves a queue leaves a queue of waiters.
LEMMA WithoutType ==
  ASSUME NEW q \in Seq(Streams), NEW s
  PROVE  Without(q, s) \in Seq(Streams)
<1>1. CASE \E k \in 1 .. Len(q) : q[k] = s
  <2> DEFINE k == CHOOSE k \in 1 .. Len(q) : q[k] = s
  <2>1. k \in 1 .. Len(q)
    BY <1>1
  <2> HIDE DEF k
  <2>2. Len(q) \in Nat /\ k \in Int /\ \A i \in 1 .. Len(q) : q[i] \in Streams
    BY <2>1
  <2>3. SubSeq(q, 1, k - 1) \in Seq(Streams)
    <3>1. \A i \in 1 .. (k - 1) : q[i] \in Streams
      BY <2>1, <2>2
    <3>2. QED
      BY <2>2, <3>1
  <2>4. SubSeq(q, k + 1, Len(q)) \in Seq(Streams)
    <3>1. \A i \in (k + 1) .. Len(q) : q[i] \in Streams
      BY <2>1, <2>2
    <3>2. QED
      BY <2>2, <3>1
  <2>5. SubSeq(q, 1, k - 1) \o SubSeq(q, k + 1, Len(q)) \in Seq(Streams)
    BY <2>3, <2>4
  <2>6. QED
    BY <1>1, <2>5 DEF Without, k
<1>2. CASE ~\E k \in 1 .. Len(q) : q[k] = s
  BY <1>2 DEF Without
<1>3. QED
  BY <1>1, <1>2

\* Updating one segment of one stream keeps a table of segments a table.
LEMMA NestedUpdate ==
  ASSUME NEW S, NEW f \in [Streams -> [Segments -> S]],
         NEW s \in Streams, NEW i \in Segments, NEW v \in S
  PROVE  [f EXCEPT ![s][i] = v] \in [Streams -> [Segments -> S]]
OBVIOUS

\* A failed enqueue leaves the task in a phase, with a number of bytes to send.
LEMMA EnqueueFailedType ==
  ASSUME TypeOK, NEW s \in Streams, EnqueueFailed(s)
  PROVE  phase' \in [Streams -> Phases] /\ rest' \in [Streams -> Int]
<1>1. \/ /\ phase' = [phase EXCEPT ![s] = "terminal"]
         /\ rest' = [rest EXCEPT ![s] = ErrorFrame]
      \/ /\ phase' = [phase EXCEPT ![s] = "unwind_memory"]
         /\ rest' = [rest EXCEPT ![s] = 0]
  BY Zenon DEF EnqueueFailed, Goto
<1>2. phase \in [Streams -> Phases] /\ rest \in [Streams -> Int]
  BY DEF TypeOK
<1>3. phase' \in [Streams -> Phases]
  BY <1>1, <1>2 DEF Phases
<1>4. rest' \in [Streams -> Int]
  BY <1>1, <1>2, ConstantTypes
<1>5. QED
  BY <1>3, <1>4

\* Every step of BudgetQueue keeps the types.
LEMMA TypeStep ==
  ASSUME TypeOK, [Next]_vars
  PROVE  TypeOK'
<1> USE ConstantTypes DEF TypeOK, Goto, segmentVars, admissionVars
<1>1. ASSUME NEW s \in Streams, Arrive(s)
      PROVE  TypeOK'
  BY <1>1 DEF Arrive, Phases
<1>2. ASSUME NEW s \in Streams, StreamPermit(s)
      PROVE  TypeOK'
  <2>1. phase' \in [Streams -> Phases]
    BY <1>2 DEF StreamPermit, Phases
  <2>2. Tail(streamQueue) \in Seq(Streams)
    BY <1>2 DEF StreamPermit, IsFirst
  <2>3. memoryQueue' \in Seq(Streams) /\ streamFree' \in Int
    BY <1>2 DEF StreamPermit
  <2>4. QED
    BY <1>2, <2>1, <2>2, <2>3 DEF StreamPermit
<1>3. ASSUME NEW s \in Streams, MemoryPermit(s)
      PROVE  TypeOK'
  <2>1. Tail(memoryQueue) \in Seq(Streams)
    BY <1>3 DEF MemoryPermit, IsFirst, ChunkGranted
  <2>2. QED
    BY <1>3, <2>1 DEF MemoryPermit, Phases
<1>4. ASSUME NEW s \in Streams, MemoryTimeout(s)
      PROVE  TypeOK'
  <2>1. Without(memoryQueue, s) \in Seq(Streams) /\ Without(streamQueue, s) \in Seq(Streams)
    BY WithoutType
  <2>2. QED
    BY <1>4, <2>1 DEF MemoryTimeout, Phases
<1>5. ASSUME NEW s \in Streams, HandlerDropped(s)
      PROVE  TypeOK'
  <2>1. Without(memoryQueue, s) \in Seq(Streams) /\ Without(streamQueue, s) \in Seq(Streams)
    BY WithoutType
  <2>2. QED
    BY <1>5, <2>1, Zenon DEF HandlerDropped, Phases
<1>6. ASSUME NEW s \in Streams, UpstreamFailed(s)
      PROVE  TypeOK'
  BY <1>6 DEF UpstreamFailed, Phases
<1>7. ASSUME NEW s \in Streams, NEW t \in Tenants, NEW isSse \in BOOLEAN, UpstreamAnswers(s, t, isSse)
      PROVE  TypeOK'
  <2>1. activeSse' \in Int
    BY <1>7 DEF UpstreamAnswers
  <2>2. sse' \in [Streams -> BOOLEAN]
    BY <1>7 DEF UpstreamAnswers
  <2>3. budget' \in [Streams -> Semaphores]
    BY <1>7 DEF UpstreamAnswers, Semaphores
  <2>4. phase' \in [Streams -> Phases]
    BY <1>7 DEF UpstreamAnswers, Phases
  <2>5. QED
    BY <1>7, <2>1, <2>2, <2>3, <2>4 DEF UpstreamAnswers
<1>8. ASSUME NEW s \in Streams, NEW n \in 1 .. MaxOutput, Enqueue(s, n)
      PROVE  TypeOK'
  BY <1>8 DEF Enqueue, Phases
<1>9. ASSUME NEW s \in Streams, TenantPermit(s)
      PROVE  TypeOK'
  <2>1. cur[s] + 1 \in Segments /\ cur[s] + 1 \in 0 .. MaxSegments
        /\ Slice(s) \in 0 .. OutputByteBudget
    BY <1>9 DEF TenantPermit, ReadyToReserve, Slice, Segments
  <2>2. seg' \in [Streams -> [Segments -> SegmentStates]]
    BY <1>9, <2>1, NestedUpdate DEF TenantPermit, SegmentStates
  <2>3. size' \in [Streams -> [Segments -> 0 .. OutputByteBudget]]
    BY <1>9, <2>1, NestedUpdate DEF TenantPermit
  <2>4. tenantFree' \in [Semaphores -> Int]
    BY <1>9, <2>1 DEF TenantPermit
  <2>5. QED
    BY <1>9, <2>1, <2>2, <2>3, <2>4 DEF TenantPermit, Phases
<1>10. ASSUME NEW s \in Streams, TenantLimitExceeded(s)
      PROVE  TypeOK'
  <2>1. phase' \in [Streams -> Phases] /\ rest' \in [Streams -> Int]
    BY <1>10, EnqueueFailedType DEF TenantLimitExceeded
  <2>2. QED
    BY <1>10, <2>1 DEF TenantLimitExceeded
<1>11. ASSUME NEW s \in Streams, NEW i \in Segments, GlobalPermit(s, i)
      PROVE  TypeOK'
  <2>1. seg' \in [Streams -> [Segments -> SegmentStates]]
    BY <1>11, NestedUpdate DEF GlobalPermit, SegmentStates
  <2>2. size[s][i] \in Int
    OBVIOUS
  <2>3. QED
    BY <1>11, <2>1, <2>2 DEF GlobalPermit, Phases
<1>12. ASSUME NEW s \in Streams, NEW i \in Segments, GlobalLimitExceeded(s, i)
      PROVE  TypeOK'
  <2>1. phase' \in [Streams -> Phases] /\ rest' \in [Streams -> Int]
    BY <1>12, EnqueueFailedType DEF GlobalLimitExceeded
  <2>2. seg' \in [Streams -> [Segments -> SegmentStates]]
    BY <1>12, NestedUpdate DEF GlobalLimitExceeded, SegmentStates
  <2>3. 0 \in 0 .. OutputByteBudget /\ size[s][i] \in Int
    OBVIOUS
  <2>4. size' \in [Streams -> [Segments -> 0 .. OutputByteBudget]]
    BY <1>12, <2>3, NestedUpdate DEF GlobalLimitExceeded
  <2>5. tenantFree' \in [Semaphores -> Int]
    BY <1>12, <2>3 DEF GlobalLimitExceeded
  <2>6. QED
    BY <1>12, <2>1, <2>2, <2>3, <2>4, <2>5 DEF GlobalLimitExceeded
<1>13. ASSUME NEW s \in Streams, NEW i \in Segments, RecordInUse(s, i)
      PROVE  TypeOK'
  <2>1. seg' \in [Streams -> [Segments -> SegmentStates]]
    BY <1>13, NestedUpdate DEF RecordInUse, SegmentStates
  <2>2. size[s][i] \in Int
    OBVIOUS
  <2>3. QED
    BY <1>13, <2>1, <2>2 DEF RecordInUse, Phases
<1>14. ASSUME NEW s \in Streams, NEW i \in Segments, Send(s, i)
      PROVE  TypeOK'
  <2>1. seg' \in [Streams -> [Segments -> SegmentStates]]
    BY <1>14, NestedUpdate DEF Send, SegmentStates
  <2>2. size[s][i] \in Int
    OBVIOUS
  <2>3. QED
    BY <1>14, <2>1, <2>2 DEF Send, Phases
<1>15. ASSUME NEW s \in Streams, NEW i \in Segments, EnqueueTimeout(s, i)
      PROVE  TypeOK'
  <2>1. phase' \in [Streams -> Phases] /\ rest' \in [Streams -> Int]
    BY <1>15, EnqueueFailedType, Zenon DEF EnqueueTimeout
  <2>2. seg' \in [Streams -> [Segments -> SegmentStates]]
    BY <1>15, NestedUpdate DEF EnqueueTimeout, SegmentStates
  <2>3. size[s][i] \in Int
    OBVIOUS
  <2>4. QED
    BY <1>15, <2>1, <2>2, <2>3 DEF EnqueueTimeout
<1>16. ASSUME NEW s \in Streams, NEW i \in Segments, SendClosed(s, i)
      PROVE  TypeOK'
  <2>1. phase' \in [Streams -> Phases] /\ rest' \in [Streams -> Int]
    BY <1>16, EnqueueFailedType DEF SendClosed
  <2>2. seg' \in [Streams -> [Segments -> SegmentStates]]
    BY <1>16, NestedUpdate DEF SendClosed, SegmentStates
  <2>3. QED
    BY <1>16, <2>1, <2>2 DEF SendClosed
<1>17. ASSUME NEW s \in Streams, StreamEnds(s)
      PROVE  TypeOK'
  BY <1>17 DEF StreamEnds, Phases
<1>18. ASSUME NEW s \in Streams, StreamError(s)
      PROVE  TypeOK'
  BY <1>18 DEF StreamError, Phases
<1>19. ASSUME NEW s \in Streams, TaskReturns(s)
      PROVE  TypeOK'
  BY <1>19 DEF TaskReturns, Phases
<1>20. ASSUME NEW s \in Streams, UnwindMemory(s)
      PROVE  TypeOK'
  BY <1>20 DEF UnwindMemory, Phases
<1>21. ASSUME NEW s \in Streams, UnwindStream(s)
      PROVE  TypeOK'
  BY <1>21 DEF UnwindStream, Phases
<1>22. ASSUME NEW s \in Streams, UnwindGuard(s)
      PROVE  TypeOK'
  BY <1>22 DEF UnwindGuard, Phases
<1>23. ASSUME NEW s \in Streams, PollFrame(s)
      PROVE  TypeOK'
  BY <1>23 DEF PollFrame, Phases
<1>24. ASSUME NEW s \in Streams, NEW i \in Segments, ReceiveFrame(s, i)
      PROVE  TypeOK'
  <2>1. seg' \in [Streams -> [Segments -> SegmentStates]]
    BY <1>24, NestedUpdate DEF ReceiveFrame, SegmentStates
  <2>2. QED
    BY <1>24, <2>1 DEF ReceiveFrame, Phases
<1>25. ASSUME NEW s \in Streams, ReceiveNothing(s)
      PROVE  TypeOK'
  BY <1>25 DEF ReceiveNothing, Phases
<1>26. ASSUME NEW s \in Streams, BodyDropped(s)
      PROVE  TypeOK'
  BY <1>26 DEF BodyDropped, Phases
<1>27. ASSUME NEW s \in Streams, NEW i \in Segments, DropCounter(s, i)
      PROVE  TypeOK'
  <2>1. seg' \in [Streams -> [Segments -> SegmentStates]]
    BY <1>27, NestedUpdate DEF DropCounter, SegmentStates
  <2>2. size[s][i] \in Int
    OBVIOUS
  <2>3. QED
    BY <1>27, <2>1, <2>2 DEF DropCounter, Phases
<1>28. ASSUME NEW s \in Streams, NEW i \in Segments, DropGlobalPermit(s, i)
      PROVE  TypeOK'
  <2>1. seg' \in [Streams -> [Segments -> SegmentStates]]
    BY <1>28, NestedUpdate DEF DropGlobalPermit, SegmentStates
  <2>2. size[s][i] \in Int
    OBVIOUS
  <2>3. QED
    BY <1>28, <2>1, <2>2 DEF DropGlobalPermit, Phases
<1>29. ASSUME NEW s \in Streams, NEW i \in Segments, DropLocalPermit(s, i)
      PROVE  TypeOK'
  <2>1. seg' \in [Streams -> [Segments -> SegmentStates]]
    BY <1>29, NestedUpdate DEF DropLocalPermit, SegmentStates
  <2>2. 0 \in 0 .. OutputByteBudget /\ size[s][i] \in Int
    OBVIOUS
  <2>3. size' \in [Streams -> [Segments -> 0 .. OutputByteBudget]]
    BY <1>29, <2>2, NestedUpdate DEF DropLocalPermit
  <2>4. tenantFree' \in [Semaphores -> Int]
    BY <1>29, <2>2 DEF DropLocalPermit
  <2>5. QED
    BY <1>29, <2>1, <2>2, <2>3, <2>4 DEF DropLocalPermit, Phases
<1>30. ASSUME NEW s \in Streams, Recycle(s)
      PROVE  TypeOK'
  BY <1>30 DEF Recycle, Phases
<1>31. ASSUME ReloadKeyring
      PROVE  TypeOK'
  BY <1>31 DEF ReloadKeyring
<1>32. CASE UNCHANGED vars
  BY <1>32 DEF vars
<1>33. QED
  BY ZenonT(30), <1>1, <1>2, <1>3, <1>4, <1>5, <1>6, <1>7, <1>8, <1>9, <1>10,
     <1>11, <1>12, <1>13, <1>14, <1>15, <1>16, <1>17, <1>18, <1>19, <1>20,
     <1>21, <1>22, <1>23, <1>24, <1>25, <1>26, <1>27, <1>28, <1>29, <1>30,
     <1>31, <1>32
  DEF Next, StreamStep, Handler, ReserveAndSend, Unwind, Receive, DropSegment

\* The type invariant, for every value of the constants: queues hold streams,
\* segments fit the byte budget, counters are numbers.
THEOREM TypeCorrect == Spec => []TypeOK
<1>1. Init => TypeOK
  BY ConstantTypes DEF Init, TypeOK, Phases, SegmentStates, Semaphores, Segments
<1>2. TypeOK /\ [Next]_vars => TypeOK'
  BY TypeStep
<1>3. QED
  BY <1>1, <1>2, PTL DEF Spec

-----------------------------------------------------------------------------
(***************************************************************************)
(* How a step changes what is held: not at all, in one segment, or in the   *)
(* chunk of one stream.                                                    *)
(***************************************************************************)

SameChunks ==
  \A r \in Streams : (phase'[r] \in HoldsMemoryChunk) <=> (phase[r] \in HoldsMemoryChunk)
SameSegments == seg' = seg /\ size' = size
OnlySegment(s, i) ==
  \A r \in Streams, j \in Segments :
    (r # s \/ j # i) => seg'[r][j] = seg[r][j] /\ size'[r][j] = size[r][j]
OnlyPhase(s) == \A r \in Streams : r # s => phase'[r] = phase[r]

BytesIn(s, i, states) == IF seg[s][i] \in states THEN size[s][i] ELSE 0

SlotsTyped ==
  /\ GlobalHeld \in Holdings
  /\ CountedBytes \in Holdings
  /\ \A m \in Semaphores : TenantHeld(m) \in Holdings

\* What is held in a slot is within the range the counting lemmas need.
LEMMA SlotTypes == TypeOK => SlotsTyped
<1> SUFFICES ASSUME TypeOK PROVE SlotsTyped
  OBVIOUS
<1>1. ASSUME NEW p \in Slots
      PROVE  /\ p[1] \in Streams
             /\ p[2] # 0 => p[2] \in Segments
  BY ConstantTypes DEF Slots, Segments
<1>2. ASSUME NEW p \in Slots, NEW states
      PROVE  SegmentBytes(p, states) \in 0 .. MaxHeld
  <2>1. CASE p[2] # 0
    <3>1. size[p[1]][p[2]] \in 0 .. OutputByteBudget
      BY <1>1, <2>1 DEF TypeOK
    <3>2. QED
      BY <2>1, <3>1, ConstantTypes DEF SegmentBytes
  <2>2. CASE p[2] = 0
    BY <2>2, ConstantTypes DEF SegmentBytes
  <2>3. QED
    BY <2>1, <2>2
<1>3. ASSUME NEW p \in Slots
      PROVE  ChunkBytes(p) \in 0 .. MaxHeld
  BY ConstantTypes DEF ChunkBytes
<1>4. QED
  BY <1>2, <1>3, ConstantTypes
  DEF SlotsTyped, GlobalHeld, CountedBytes, TenantHeld, Holdings

\* The same after a step.
LEMMA SlotTypesNext == TypeOK' => SlotsTyped'
  BY SlotTypes, PTL

\* A step that moves no chunk and no segment changes no holding.
LEMMA GlobalQuiet ==
  ASSUME SameChunks, SameSegments
  PROVE  GlobalHeld' = GlobalHeld
<1>1. ASSUME NEW p \in Slots
      PROVE  /\ ChunkBytes(p)' = ChunkBytes(p)
             /\ SegmentBytes(p, HoldsGlobal)' = SegmentBytes(p, HoldsGlobal)
  BY DEF SameChunks, SameSegments, ChunkBytes, SegmentBytes, Slots, HoldsGlobal,
         HoldsMemoryChunk
<1>2. QED
  BY <1>1 DEF GlobalHeld

\* A step that changes one segment changes the total by that segment.
LEMMA GlobalSegment ==
  ASSUME TypeOK, TypeOK', NEW s \in Streams, NEW i \in Segments,
         SameChunks, OnlySegment(s, i)
  PROVE  Held(GlobalHeld)' = Held(GlobalHeld) - BytesIn(s, i, HoldsGlobal)
                                              + BytesIn(s, i, HoldsGlobal)'
<1> DEFINE p == <<s, i>>
<1>1. p \in Slots /\ p[1] = s /\ p[2] = i /\ i # 0
  BY ConstantTypes DEF Slots, Segments
<1>2. ASSUME NEW q \in Slots, q # p
      PROVE  GlobalHeld'[q] = GlobalHeld[q]
  <2>1. q[1] \in Streams /\ q[2] \in 0 .. MaxSegments /\ (q[1] # s \/ q[2] # i)
    BY <1>2 DEF Slots
  <2>2. ChunkBytes(q)' = ChunkBytes(q)
    BY <2>1 DEF ChunkBytes, SameChunks
  <2>3. CASE q[2] # 0
    <3>1. seg'[q[1]][q[2]] = seg[q[1]][q[2]] /\ size'[q[1]][q[2]] = size[q[1]][q[2]]
      BY <2>1, <2>3, ConstantTypes DEF OnlySegment, Segments
    <3>2. QED
      BY <1>2, <2>3, <3>1 DEF GlobalHeld, SegmentBytes
  <2>4. CASE q[2] = 0
    BY <1>2, <2>2, <2>4 DEF GlobalHeld
  <2>5. QED
    BY <2>3, <2>4
<1>3. GlobalHeld[p] = BytesIn(s, i, HoldsGlobal) /\ GlobalHeld'[p] = BytesIn(s, i, HoldsGlobal)'
  BY <1>1 DEF GlobalHeld, SegmentBytes, BytesIn
<1>4. GlobalHeld \in Holdings /\ GlobalHeld' \in Holdings
  <2>1. SlotsTyped /\ SlotsTyped'
    BY SlotTypes, SlotTypesNext
  <2>2. QED
    BY <2>1 DEF SlotsTyped, Holdings, Slots, MaxHeld
<1> HIDE DEF p
<1>5. Held(GlobalHeld') = Held(GlobalHeld) - GlobalHeld[p] + GlobalHeld'[p]
  BY <1>1, <1>2, <1>4, HeldUpdate
<1>6. QED
  BY <1>3, <1>5

\* A step that changes the phase of one stream changes the total by its chunk.
LEMMA GlobalChunk ==
  ASSUME TypeOK, TypeOK', NEW s \in Streams, SameSegments, OnlyPhase(s)
  PROVE  /\ phase[s] \notin HoldsMemoryChunk /\ phase'[s] \in HoldsMemoryChunk
              => Held(GlobalHeld)' = Held(GlobalHeld) + GlobalMemoryChunk
         /\ phase[s] \in HoldsMemoryChunk /\ phase'[s] \notin HoldsMemoryChunk
              => Held(GlobalHeld)' = Held(GlobalHeld) - GlobalMemoryChunk
<1> DEFINE p == <<s, 0>>
<1>1. p \in Slots /\ p[1] = s /\ p[2] = 0
  BY ConstantTypes DEF Slots
<1>2. ASSUME NEW q \in Slots, q # p
      PROVE  GlobalHeld'[q] = GlobalHeld[q]
  <2>1. q[1] \in Streams /\ (q[1] # s \/ q[2] # 0)
    BY <1>2 DEF Slots
  <2>2. SegmentBytes(q, HoldsGlobal)' = SegmentBytes(q, HoldsGlobal)
    BY DEF SegmentBytes, SameSegments, HoldsGlobal
  <2>3. q[2] = 0 => ChunkBytes(q)' = ChunkBytes(q)
    BY <2>1 DEF ChunkBytes, OnlyPhase, HoldsMemoryChunk
  <2>4. QED
    BY <1>2, <2>2, <2>3 DEF GlobalHeld
<1>3. /\ GlobalHeld[p] = IF phase[s] \in HoldsMemoryChunk THEN GlobalMemoryChunk ELSE 0
      /\ GlobalHeld'[p] = IF phase'[s] \in HoldsMemoryChunk THEN GlobalMemoryChunk ELSE 0
  BY <1>1 DEF GlobalHeld, ChunkBytes, HoldsMemoryChunk
<1>4. GlobalHeld \in Holdings /\ GlobalHeld' \in Holdings
  BY SlotTypes, SlotTypesNext DEF SlotsTyped, Holdings, Slots, MaxHeld
<1>5. Held(GlobalHeld) \in Nat
  BY <1>4, HeldType
<1> HIDE DEF p
<1>6. Held(GlobalHeld') = Held(GlobalHeld) - GlobalHeld[p] + GlobalHeld'[p]
  BY <1>1, <1>2, <1>4, HeldUpdate
<1>7. QED
  BY <1>3, <1>5, <1>6, ConstantTypes

\* A step that changes one segment leaves the bytes of the others alone.
LEMMA OtherSlots ==
  ASSUME NEW s \in Streams, NEW i \in Segments, OnlySegment(s, i),
         NEW q \in Slots, q # <<s, i>>, NEW states
  PROVE  SegmentBytes(q, states)' = SegmentBytes(q, states)
<1>1. q[1] \in Streams /\ q[2] \in 0 .. MaxSegments /\ (q[1] # s \/ q[2] # i)
  BY DEF Slots
<1>2. CASE q[2] # 0
  <2>1. seg'[q[1]][q[2]] = seg[q[1]][q[2]] /\ size'[q[1]][q[2]] = size[q[1]][q[2]]
    BY <1>1, <1>2, ConstantTypes DEF OnlySegment, Segments
  <2>2. QED
    BY <2>1 DEF SegmentBytes
<1>3. CASE q[2] = 0
  BY <1>3 DEF SegmentBytes
<1>4. QED
  BY <1>2, <1>3

\* The bytes counted in PROXY_BYTE_BUDGET_IN_USE, in a step that changes one
\* segment.
LEMMA CountedSegment ==
  ASSUME TypeOK, TypeOK', NEW s \in Streams, NEW i \in Segments, OnlySegment(s, i)
  PROVE  Held(CountedBytes)' = Held(CountedBytes) - BytesIn(s, i, Counted)
                                                  + BytesIn(s, i, Counted)'
<1> DEFINE p == <<s, i>>
<1>1. p \in Slots /\ p[1] = s /\ p[2] = i /\ i # 0
  BY ConstantTypes DEF Slots, Segments
<1>2. ASSUME NEW q \in Slots, q # p
      PROVE  CountedBytes'[q] = CountedBytes[q]
  BY <1>2, OtherSlots DEF CountedBytes, Counted
<1>3. CountedBytes[p] = BytesIn(s, i, Counted) /\ CountedBytes'[p] = BytesIn(s, i, Counted)'
  BY <1>1 DEF CountedBytes, SegmentBytes, BytesIn
<1>4. CountedBytes \in Holdings /\ CountedBytes' \in Holdings
  BY SlotTypes, SlotTypesNext DEF SlotsTyped, Holdings, Slots, MaxHeld
<1> HIDE DEF p
<1>5. Held(CountedBytes') = Held(CountedBytes) - CountedBytes[p] + CountedBytes'[p]
  BY <1>1, <1>2, <1>4, HeldUpdate
<1>6. QED
  BY <1>3, <1>5


-----------------------------------------------------------------------------

-----------------------------------------------------------------------------
(***************************************************************************)
(* TaskConsistent is inductive relative to the type invariant.             *)
(***************************************************************************)

\* A failed enqueue leaves the task with a terminal frame to send or with
\* nothing to send.
LEMMA EnqueueFailedOutcome ==
  ASSUME TypeOK, NEW s \in Streams, EnqueueFailed(s)
  PROVE  /\ OnlyPhase(s)
         /\ \A r \in Streams : r # s => rest'[r] = rest[r]
         /\ \/ phase'[s] = "terminal" /\ rest'[s] = ErrorFrame
            \/ phase'[s] = "unwind_memory" /\ rest'[s] = 0
<1>1. \/ /\ phase' = [phase EXCEPT ![s] = "terminal"]
         /\ rest' = [rest EXCEPT ![s] = ErrorFrame]
      \/ /\ phase' = [phase EXCEPT ![s] = "unwind_memory"]
         /\ rest' = [rest EXCEPT ![s] = 0]
  BY Zenon DEF EnqueueFailed, Goto
<1>2. phase \in [Streams -> Phases] /\ rest \in [Streams -> Int]
  BY DEF TypeOK
<1>3. QED
  BY <1>1, <1>2 DEF OnlyPhase

\* A stream that a step leaves alone stays consistent.
LEMMA OtherTask ==
  ASSUME NEW r \in Streams, TaskOK(r), phase'[r] = phase[r], rest'[r] = rest[r],
         cur'[r] = cur[r], seg'[r] = seg[r], size'[r] = size[r]
  PROVE  TaskOK(r)'
  BY DEF TaskOK, Reserving, BeforeTask, Segments

\* A failed enqueue that leaves no slice in the making leaves the task consistent.
LEMMA FailedTask ==
  ASSUME TypeOK, NEW s \in Streams, EnqueueFailed(s), cur' = cur,
         \A i \in Segments : seg'[s][i] \notin Reserving,
         \A i \in Segments : i > cur[s] => seg'[s][i] = "none"
  PROVE  TaskOK(s)'
<1>1. \/ phase'[s] = "terminal" /\ rest'[s] = ErrorFrame
      \/ phase'[s] = "unwind_memory" /\ rest'[s] = 0
  BY EnqueueFailedOutcome
<1>2. rest'[s] >= 0 /\ (rest'[s] > 0 => phase'[s] = "terminal")
  BY <1>1, ConstantTypes
<1>3. phase'[s] \notin BeforeTask
  BY <1>1 DEF BeforeTask
<1>4. QED
  BY <1>2, <1>3, ZenonT(40) DEF TaskOK

\* Every step keeps the tasks consistent.
LEMMA TaskStep ==
  ASSUME TypeOK, TypeOK', TaskConsistent, [Next]_vars
  PROVE  TaskConsistent'
<1> USE ConstantTypes DEF Goto, segmentVars, admissionVars
<1>0. /\ phase \in [Streams -> Phases] /\ rest \in [Streams -> Int]
      /\ seg \in [Streams -> [Segments -> SegmentStates]]
      /\ size \in [Streams -> [Segments -> 0 .. OutputByteBudget]]
      /\ cur \in [Streams -> 0 .. MaxSegments]
      /\ \A r \in Streams : TaskOK(r)
  BY DEF TypeOK, TaskConsistent
<1>1. ASSUME NEW s \in Streams, Arrive(s)
      PROVE  TaskConsistent'
  <2>1. ASSUME NEW r \in Streams, r # s PROVE TaskOK(r)'
    BY <1>0, <1>1, <2>1, OtherTask DEF Arrive
  <2>2. TaskOK(s)'
    BY <1>0, <1>1, ZenonT(40) DEF Arrive, TaskOK, Reserving, BeforeTask
  <2>3. QED
    BY <2>1, <2>2 DEF TaskConsistent
<1>2. ASSUME NEW s \in Streams, StreamPermit(s)
      PROVE  TaskConsistent'
  <2>1. ASSUME NEW r \in Streams, r # s PROVE TaskOK(r)'
    BY <1>0, <1>2, <2>1, OtherTask DEF StreamPermit
  <2>2. TaskOK(s)'
    BY <1>0, <1>2, ZenonT(40) DEF StreamPermit, TaskOK, Reserving, BeforeTask
  <2>3. QED
    BY <2>1, <2>2 DEF TaskConsistent
<1>3. ASSUME NEW s \in Streams, MemoryPermit(s)
      PROVE  TaskConsistent'
  <2>1. ASSUME NEW r \in Streams, r # s PROVE TaskOK(r)'
    BY <1>0, <1>3, <2>1, OtherTask DEF MemoryPermit
  <2>2. TaskOK(s)'
    BY <1>0, <1>3, ZenonT(40) DEF MemoryPermit, TaskOK, Reserving, BeforeTask
  <2>3. QED
    BY <2>1, <2>2 DEF TaskConsistent
<1>4. ASSUME NEW s \in Streams, MemoryTimeout(s)
      PROVE  TaskConsistent'
  <2>1. ASSUME NEW r \in Streams, r # s PROVE TaskOK(r)'
    BY <1>0, <1>4, <2>1, OtherTask DEF MemoryTimeout
  <2>2. TaskOK(s)'
    BY <1>0, <1>4 DEF MemoryTimeout, TaskOK, Reserving, BeforeTask
  <2>3. QED
    BY <2>1, <2>2 DEF TaskConsistent
<1>5. ASSUME NEW s \in Streams, HandlerDropped(s)
      PROVE  TaskConsistent'
  <2>1. ASSUME NEW r \in Streams, r # s PROVE TaskOK(r)'
    BY <1>0, <1>5, <2>1, OtherTask DEF HandlerDropped
  <2>2. TaskOK(s)'
    BY <1>0, <1>5 DEF HandlerDropped, TaskOK, Reserving, BeforeTask
  <2>3. QED
    BY <2>1, <2>2 DEF TaskConsistent
<1>6. ASSUME NEW s \in Streams, UpstreamFailed(s)
      PROVE  TaskConsistent'
  <2>1. ASSUME NEW r \in Streams, r # s PROVE TaskOK(r)'
    BY <1>0, <1>6, <2>1, OtherTask DEF UpstreamFailed
  <2>2. TaskOK(s)'
    BY <1>0, <1>6 DEF UpstreamFailed, TaskOK, Reserving, BeforeTask
  <2>3. QED
    BY <2>1, <2>2 DEF TaskConsistent
<1>7. ASSUME NEW s \in Streams, NEW t \in Tenants, NEW isSse \in BOOLEAN, UpstreamAnswers(s, t, isSse)
      PROVE  TaskConsistent'
  <2>1. ASSUME NEW r \in Streams, r # s PROVE TaskOK(r)'
    BY <1>0, <1>7, <2>1, OtherTask DEF UpstreamAnswers
  <2>2. TaskOK(s)'
    BY <1>0, <1>7 DEF UpstreamAnswers, TaskOK, Reserving, BeforeTask
  <2>3. QED
    BY <2>1, <2>2 DEF TaskConsistent
<1>8. ASSUME NEW s \in Streams, NEW n \in 1 .. MaxOutput, Enqueue(s, n)
      PROVE  TaskConsistent'
  <2>1. ASSUME NEW r \in Streams, r # s PROVE TaskOK(r)'
    BY <1>0, <1>8, <2>1, OtherTask DEF Enqueue
  <2>2. TaskOK(s)'
    BY <1>0, <1>8 DEF Enqueue, TaskOK, Reserving, BeforeTask
  <2>3. QED
    BY <2>1, <2>2 DEF TaskConsistent
<1>9. ASSUME NEW s \in Streams, TenantPermit(s)
      PROVE  TaskConsistent'
  <2>1. ASSUME NEW r \in Streams, r # s PROVE TaskOK(r)'
    BY <1>0, <1>9, <2>1, OtherTask DEF TenantPermit
  <2>2. TaskOK(s)'
    <3>1. /\ phase' = phase /\ rest' = rest /\ cur'[s] = cur[s] + 1
          /\ phase[s] \in {"loop", "finish", "terminal"}
          /\ 0 < Slice(s) /\ Slice(s) <= rest[s]
      BY <1>0, <1>9 DEF TenantPermit, ReadyToReserve, Slice, TaskOK
    <3>2. PICK k \in Segments : k = cur[s] + 1
      BY <1>0, <1>9 DEF TenantPermit, ReadyToReserve, Segments
    <3>3. /\ seg'[s][k] = "local" /\ size'[s][k] = Slice(s)
          /\ \A i \in Segments : i # k => seg'[s][i] = seg[s][i]
      BY <1>0, <1>9, <3>2 DEF TenantPermit
    <3>4. \A i \in Segments : seg[s][i] \notin Reserving
      BY <1>9 DEF TenantPermit, ReadyToReserve, Reserving
    <3>5. \A i \in Segments : i > cur'[s] => i # k /\ seg[s][i] = "none"
      BY <1>0, <3>1, <3>2 DEF TaskOK, Segments
    <3>6. \A i \in Segments : seg'[s][i] \in Reserving => i = k
      BY <3>3, <3>4
    <3>7. \A i \in Segments :
            phase'[s] \in BeforeTask \/ i > cur'[s] => seg'[s][i] = "none"
      BY <3>1, <3>3, <3>5 DEF BeforeTask
    <3>8. rest'[s] >= 0 /\ size'[s][k] > 0 /\ size'[s][k] <= rest'[s]
      BY <1>0, <3>1, <3>3 DEF TaskOK
    <3>9. QED
      BY <3>1, <3>6, <3>7, <3>8, ZenonT(40) DEF TaskOK, BeforeTask, Reserving
  <2>3. QED
    BY <2>1, <2>2 DEF TaskConsistent
<1>10. ASSUME NEW s \in Streams, TenantLimitExceeded(s)
      PROVE  TaskConsistent'
  <2>1. EnqueueFailed(s)
    BY <1>10, Zenon DEF TenantLimitExceeded
  <2>2. ASSUME NEW r \in Streams, r # s PROVE TaskOK(r)'
    <3>1. phase'[r] = phase[r] /\ rest'[r] = rest[r]
      BY <2>1, <2>2, EnqueueFailedOutcome DEF OnlyPhase
    <3>2. cur'[r] = cur[r] /\ seg'[r] = seg[r] /\ size'[r] = size[r]
      BY <1>0, <1>10, <2>2, Zenon DEF TenantLimitExceeded
    <3>3. QED
      BY <1>0, <3>1, <3>2, OtherTask, ZenonT(40)
  <2>3. \A i \in Segments : /\ seg'[s][i] \notin Reserving
                            /\ i > cur[s] => seg'[s][i] = "none"
    <3>1. seg' = seg /\ \A i \in Segments : seg[s][i] \notin Reserving
      BY <1>10, ZenonT(40) DEF TenantLimitExceeded, ReadyToReserve, Reserving
    <3>2. QED
      BY <1>0, <3>1, ZenonT(40) DEF TaskOK
  <2>4. TaskOK(s)'
    BY <1>10, <2>1, <2>3, FailedTask, Zenon DEF TenantLimitExceeded
  <2>5. QED
    BY <2>2, <2>4 DEF TaskConsistent
<1>11. ASSUME NEW s \in Streams, NEW i \in Segments, GlobalPermit(s, i)
      PROVE  TaskConsistent'
  <2>1. ASSUME NEW r \in Streams, r # s PROVE TaskOK(r)'
    BY <1>0, <1>11, <2>1, OtherTask DEF GlobalPermit
  <2>2. TaskOK(s)'
    BY <1>0, <1>11 DEF GlobalPermit, TaskOK, Reserving, BeforeTask
  <2>3. QED
    BY <2>1, <2>2 DEF TaskConsistent
<1>12. ASSUME NEW s \in Streams, NEW i \in Segments, GlobalLimitExceeded(s, i)
      PROVE  TaskConsistent'
  <2>1. EnqueueFailed(s)
    BY <1>12, Zenon DEF GlobalLimitExceeded
  <2>2. ASSUME NEW r \in Streams, r # s PROVE TaskOK(r)'
    <3>1. phase'[r] = phase[r] /\ rest'[r] = rest[r]
      BY <2>1, <2>2, EnqueueFailedOutcome DEF OnlyPhase
    <3>2. cur'[r] = cur[r] /\ seg'[r] = seg[r] /\ size'[r] = size[r]
      BY <1>0, <1>12, <2>2 DEF GlobalLimitExceeded
    <3>3. QED
      BY <1>0, <3>1, <3>2, OtherTask, ZenonT(40)
  <2>3. \A j \in Segments : /\ seg'[s][j] \notin Reserving
                            /\ j > cur[s] => seg'[s][j] = "none"
    <3>1. /\ seg[s][i] = "local" /\ seg'[s][i] = "none"
          /\ \A j \in Segments : j # i => seg'[s][j] = seg[s][j]
      BY <1>0, <1>12 DEF GlobalLimitExceeded
    <3>2. \A j \in Segments : j # i => seg[s][j] \notin Reserving
      BY <1>0, <3>1 DEF TaskOK, Reserving
    <3>3. ~(i > cur[s]) /\ \A j \in Segments : j > cur[s] => seg[s][j] = "none"
      BY <1>0, <3>1 DEF TaskOK
    <3>4. QED
      BY <3>1, <3>2, <3>3 DEF Reserving
  <2>4. TaskOK(s)'
    BY <1>12, <2>1, <2>3, FailedTask DEF GlobalLimitExceeded
  <2>5. QED
    BY <2>2, <2>4 DEF TaskConsistent
<1>13. ASSUME NEW s \in Streams, NEW i \in Segments, RecordInUse(s, i)
      PROVE  TaskConsistent'
  <2>1. ASSUME NEW r \in Streams, r # s PROVE TaskOK(r)'
    BY <1>0, <1>13, <2>1, OtherTask DEF RecordInUse
  <2>2. TaskOK(s)'
    BY <1>0, <1>13 DEF RecordInUse, TaskOK, Reserving, BeforeTask
  <2>3. QED
    BY <2>1, <2>2 DEF TaskConsistent
<1>14. ASSUME NEW s \in Streams, NEW i \in Segments, Send(s, i)
      PROVE  TaskConsistent'
  <2>1. ASSUME NEW r \in Streams, r # s PROVE TaskOK(r)'
    BY <1>0, <1>14, <2>1, OtherTask DEF Send
  <2>2. TaskOK(s)'
    BY <1>0, <1>14 DEF Send, TaskOK, Reserving, BeforeTask
  <2>3. QED
    BY <2>1, <2>2 DEF TaskConsistent
<1>15. ASSUME NEW s \in Streams, NEW i \in Segments, EnqueueTimeout(s, i)
      PROVE  TaskConsistent'
  <2>1. EnqueueFailed(s)
    BY <1>15, ZenonT(40) DEF EnqueueTimeout
  <2>2. ASSUME NEW r \in Streams, r # s PROVE TaskOK(r)'
    <3>1. phase'[r] = phase[r] /\ rest'[r] = rest[r]
      BY <2>1, <2>2, EnqueueFailedOutcome DEF OnlyPhase
    <3>2. cur'[r] = cur[r] /\ seg'[r] = seg[r] /\ size'[r] = size[r]
      BY <1>0, <1>15, <2>2 DEF EnqueueTimeout
    <3>3. QED
      BY <1>0, <3>1, <3>2, OtherTask, ZenonT(40)
  <2>3. \A j \in Segments : /\ seg'[s][j] \notin Reserving
                            /\ j > cur[s] => seg'[s][j] = "none"
    <3>1. /\ seg[s][i] = "hand" /\ seg'[s][i] = "p_uncounted"
          /\ \A j \in Segments : j # i => seg'[s][j] = seg[s][j]
      BY <1>0, <1>15 DEF EnqueueTimeout
    <3>2. \A j \in Segments : j # i => seg[s][j] \notin Reserving
      BY <1>0, <3>1 DEF TaskOK, Reserving
    <3>3. ~(i > cur[s]) /\ \A j \in Segments : j > cur[s] => seg[s][j] = "none"
      BY <1>0, <3>1 DEF TaskOK
    <3>4. QED
      BY <3>1, <3>2, <3>3 DEF Reserving
  <2>4. TaskOK(s)'
    BY <1>15, <2>1, <2>3, FailedTask DEF EnqueueTimeout
  <2>5. QED
    BY <2>2, <2>4 DEF TaskConsistent
<1>16. ASSUME NEW s \in Streams, NEW i \in Segments, SendClosed(s, i)
      PROVE  TaskConsistent'
  <2>1. EnqueueFailed(s)
    BY <1>16, ZenonT(40) DEF SendClosed
  <2>2. ASSUME NEW r \in Streams, r # s PROVE TaskOK(r)'
    <3>1. phase'[r] = phase[r] /\ rest'[r] = rest[r]
      BY <2>1, <2>2, EnqueueFailedOutcome DEF OnlyPhase
    <3>2. cur'[r] = cur[r] /\ seg'[r] = seg[r] /\ size'[r] = size[r]
      BY <1>0, <1>16, <2>2 DEF SendClosed
    <3>3. QED
      BY <1>0, <3>1, <3>2, OtherTask, ZenonT(40)
  <2>3. \A j \in Segments : /\ seg'[s][j] \notin Reserving
                            /\ j > cur[s] => seg'[s][j] = "none"
    <3>1. /\ seg[s][i] = "hand" /\ seg'[s][i] = "error"
          /\ \A j \in Segments : j # i => seg'[s][j] = seg[s][j]
      BY <1>0, <1>16 DEF SendClosed
    <3>2. \A j \in Segments : j # i => seg[s][j] \notin Reserving
      BY <1>0, <3>1 DEF TaskOK, Reserving
    <3>3. ~(i > cur[s]) /\ \A j \in Segments : j > cur[s] => seg[s][j] = "none"
      BY <1>0, <3>1 DEF TaskOK
    <3>4. QED
      BY <3>1, <3>2, <3>3 DEF Reserving
  <2>4. TaskOK(s)'
    BY <1>16, <2>1, <2>3, FailedTask DEF SendClosed
  <2>5. QED
    BY <2>2, <2>4 DEF TaskConsistent
<1>17. ASSUME NEW s \in Streams, StreamEnds(s)
      PROVE  TaskConsistent'
  <2>1. ASSUME NEW r \in Streams, r # s PROVE TaskOK(r)'
    BY <1>0, <1>17, <2>1, OtherTask DEF StreamEnds
  <2>2. TaskOK(s)'
    BY <1>0, <1>17 DEF StreamEnds, TaskOK, Reserving, BeforeTask
  <2>3. QED
    BY <2>1, <2>2 DEF TaskConsistent
<1>18. ASSUME NEW s \in Streams, StreamError(s)
      PROVE  TaskConsistent'
  <2>1. ASSUME NEW r \in Streams, r # s PROVE TaskOK(r)'
    BY <1>0, <1>18, <2>1, OtherTask DEF StreamError
  <2>2. TaskOK(s)'
    BY <1>0, <1>18 DEF StreamError, TaskOK, Reserving, BeforeTask
  <2>3. QED
    BY <2>1, <2>2 DEF TaskConsistent
<1>19. ASSUME NEW s \in Streams, TaskReturns(s)
      PROVE  TaskConsistent'
  <2>1. ASSUME NEW r \in Streams, r # s PROVE TaskOK(r)'
    BY <1>0, <1>19, <2>1, OtherTask DEF TaskReturns
  <2>2. TaskOK(s)'
    BY <1>0, <1>19 DEF TaskReturns, TaskOK, Reserving, BeforeTask
  <2>3. QED
    BY <2>1, <2>2 DEF TaskConsistent
<1>20. ASSUME NEW s \in Streams, UnwindMemory(s)
      PROVE  TaskConsistent'
  <2>1. ASSUME NEW r \in Streams, r # s PROVE TaskOK(r)'
    BY <1>0, <1>20, <2>1, OtherTask DEF UnwindMemory
  <2>2. TaskOK(s)'
    BY <1>0, <1>20 DEF UnwindMemory, TaskOK, Reserving, BeforeTask
  <2>3. QED
    BY <2>1, <2>2 DEF TaskConsistent
<1>21. ASSUME NEW s \in Streams, UnwindStream(s)
      PROVE  TaskConsistent'
  <2>1. ASSUME NEW r \in Streams, r # s PROVE TaskOK(r)'
    BY <1>0, <1>21, <2>1, OtherTask DEF UnwindStream
  <2>2. TaskOK(s)'
    BY <1>0, <1>21, ZenonT(30) DEF UnwindStream, TaskOK, Reserving, BeforeTask
  <2>3. QED
    BY <2>1, <2>2 DEF TaskConsistent
<1>22. ASSUME NEW s \in Streams, UnwindGuard(s)
      PROVE  TaskConsistent'
  <2>1. ASSUME NEW r \in Streams, r # s PROVE TaskOK(r)'
    BY <1>0, <1>22, <2>1, OtherTask DEF UnwindGuard
  <2>2. TaskOK(s)'
    BY <1>0, <1>22, ZenonT(30) DEF UnwindGuard, TaskOK, Reserving, BeforeTask
  <2>3. QED
    BY <2>1, <2>2 DEF TaskConsistent
<1>23. ASSUME NEW s \in Streams, PollFrame(s)
      PROVE  TaskConsistent'
  <2>1. ASSUME NEW r \in Streams, r # s PROVE TaskOK(r)'
    BY <1>0, <1>23, <2>1, OtherTask DEF PollFrame
  <2>2. TaskOK(s)'
    BY <1>0, <1>23 DEF PollFrame, TaskOK, Reserving, BeforeTask
  <2>3. QED
    BY <2>1, <2>2 DEF TaskConsistent
<1>24. ASSUME NEW s \in Streams, NEW i \in Segments, ReceiveFrame(s, i)
      PROVE  TaskConsistent'
  <2>1. ASSUME NEW r \in Streams, r # s PROVE TaskOK(r)'
    BY <1>0, <1>24, <2>1, OtherTask DEF ReceiveFrame
  <2>2. TaskOK(s)'
    BY <1>0, <1>24 DEF ReceiveFrame, FirstQueued, Queued, TaskOK, Reserving, BeforeTask
  <2>3. QED
    BY <2>1, <2>2 DEF TaskConsistent
<1>25. ASSUME NEW s \in Streams, ReceiveNothing(s)
      PROVE  TaskConsistent'
  <2>1. ASSUME NEW r \in Streams, r # s PROVE TaskOK(r)'
    BY <1>0, <1>25, <2>1, OtherTask DEF ReceiveNothing
  <2>2. TaskOK(s)'
    BY <1>0, <1>25 DEF ReceiveNothing, TaskOK, Reserving, BeforeTask
  <2>3. QED
    BY <2>1, <2>2 DEF TaskConsistent
<1>26. ASSUME NEW s \in Streams, BodyDropped(s)
      PROVE  TaskConsistent'
  <2>1. ASSUME NEW r \in Streams, r # s PROVE TaskOK(r)'
    BY <1>0, <1>26, <2>1, OtherTask DEF BodyDropped
  <2>2. TaskOK(s)'
    BY <1>0, <1>26 DEF BodyDropped, TaskOK, Reserving, BeforeTask
  <2>3. QED
    BY <2>1, <2>2 DEF TaskConsistent
<1>27. ASSUME NEW s \in Streams, NEW i \in Segments, DropCounter(s, i)
      PROVE  TaskConsistent'
  <2>1. ASSUME NEW r \in Streams, r # s PROVE TaskOK(r)'
    BY <1>0, <1>27, <2>1, OtherTask DEF DropCounter
  <2>2. TaskOK(s)'
    BY <1>0, <1>27 DEF DropCounter, DropStarts, FirstQueued, Queued, TaskOK, Reserving, BeforeTask
  <2>3. QED
    BY <2>1, <2>2 DEF TaskConsistent
<1>28. ASSUME NEW s \in Streams, NEW i \in Segments, DropGlobalPermit(s, i)
      PROVE  TaskConsistent'
  <2>1. ASSUME NEW r \in Streams, r # s PROVE TaskOK(r)'
    BY <1>0, <1>28, <2>1, OtherTask DEF DropGlobalPermit
  <2>2. TaskOK(s)'
    BY <1>0, <1>28 DEF DropGlobalPermit, TaskOK, Reserving, BeforeTask
  <2>3. QED
    BY <2>1, <2>2 DEF TaskConsistent
<1>29. ASSUME NEW s \in Streams, NEW i \in Segments, DropLocalPermit(s, i)
      PROVE  TaskConsistent'
  <2>1. ASSUME NEW r \in Streams, r # s PROVE TaskOK(r)'
    BY <1>0, <1>29, <2>1, OtherTask DEF DropLocalPermit
  <2>2. TaskOK(s)'
    BY <1>0, <1>29 DEF DropLocalPermit, TaskOK, Reserving, BeforeTask
  <2>3. QED
    BY <2>1, <2>2 DEF TaskConsistent
<1>30. ASSUME NEW s \in Streams, Recycle(s)
      PROVE  TaskConsistent'
  <2>1. ASSUME NEW r \in Streams, r # s PROVE TaskOK(r)'
    BY <1>0, <1>30, <2>1, OtherTask DEF Recycle
  <2>2. TaskOK(s)'
    BY <1>0, <1>30, ZenonT(40) DEF Recycle, TaskOK, Reserving, BeforeTask
  <2>3. QED
    BY <2>1, <2>2 DEF TaskConsistent
<1>31. CASE ReloadKeyring
  BY <1>0, <1>31, OtherTask DEF ReloadKeyring, TaskConsistent
<1>32. CASE UNCHANGED vars
  BY <1>0, <1>32, OtherTask DEF vars, TaskConsistent
<1>33. QED
  BY <1>1, <1>2, <1>3, <1>4, <1>5, <1>6, <1>7, <1>8, <1>9, <1>10,
     <1>11, <1>12, <1>13, <1>14, <1>15, <1>16, <1>17, <1>18, <1>19, <1>20,
     <1>21, <1>22, <1>23, <1>24, <1>25, <1>26, <1>27, <1>28, <1>29, <1>30,
     <1>31, <1>32
  DEF Next, StreamStep, Handler, ReserveAndSend, Unwind, Receive, DropSegment

\* No task runs initially.
LEMMA InitTasks == Init => TaskConsistent
<1> SUFFICES ASSUME Init PROVE TaskConsistent
  OBVIOUS
<1>1. ASSUME NEW s \in Streams
      PROVE  rest[s] = 0 /\ \A i \in Segments : seg[s][i] = "none"
  BY DEF Init
<1>2. QED
  BY <1>1 DEF TaskConsistent, TaskOK, Reserving

\* Tasks stay consistent: one slice in the making, never past the end of the
\* output, no segment before the task exists.
THEOREM TasksConsistent == Spec => []TaskConsistent
<1>1. TypeOK /\ TypeOK' /\ TaskConsistent /\ [Next]_vars => TaskConsistent'
  BY TaskStep
<1>2. QED
  BY <1>1, InitTasks, TypeCorrect, PTL DEF Spec

=============================================================================
