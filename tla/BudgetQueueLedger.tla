------------------------- MODULE BudgetQueueLedger --------------------------
(***************************************************************************)
(* The permits of the global and of every tenant semaphore are conserved,  *)
(* the gauge of bytes in use is exact, and BudgetQueue implements Ledger:  *)
(* every step moves at most one owner of global_memory and of each tenant  *)
(* semaphore, from nothing to something or back.                           *)
(***************************************************************************)
EXTENDS BudgetQueueTasks, BudgetLedger

\* The provers a step is given to in turn, with their time limits in seconds.
USE SMTT(20), SMTT(30), ZenonT(20), SMTT(40), SMTT(50), SMTT(60)

-----------------------------------------------------------------------------
(***************************************************************************)
(* The three byte accounts together: the global semaphore, every tenant     *)
(* semaphore, and the gauge PROXY_BYTE_BUDGET_IN_USE.                        *)
(***************************************************************************)
Accounts ==
  /\ GlobalPermitsConserved
  /\ TenantPermitsConserved
  /\ inUse = Held(CountedBytes)

\* A step that moves no chunk, no segment, no budget and no counter.
Quiet ==
  /\ SameChunks /\ SameSegments /\ budget' = budget
  /\ globalFree' = globalFree /\ tenantFree' = tenantFree /\ inUse' = inUse

\* A step that moves segment i of stream s and books the change.
Books(s, i) ==
  /\ SameChunks /\ OnlySegment(s, i) /\ budget' = budget
  /\ globalFree' >= 0
  /\ globalFree' = globalFree + BytesIn(s, i, HoldsGlobal) - BytesIn(s, i, HoldsGlobal)'
  /\ inUse' = inUse - BytesIn(s, i, Counted) + BytesIn(s, i, Counted)'
  /\ \A m \in Semaphores : m # budget[s] => tenantFree'[m] = tenantFree[m]
  /\ tenantFree'[budget[s]] >= 0
  /\ tenantFree'[budget[s]]
       = tenantFree[budget[s]] + BytesIn(s, i, HoldsLocal) - BytesIn(s, i, HoldsLocal)'

\* The permits held from one tenant semaphore, in a step that changes a segment.
LEMMA TenantSegment ==
  ASSUME TypeOK, TypeOK', NEW s \in Streams, NEW i \in Segments, OnlySegment(s, i),
         budget' = budget, NEW m \in Semaphores
  PROVE  /\ budget[s] # m => Held(TenantHeld(m))' = Held(TenantHeld(m))
         /\ budget[s] = m => Held(TenantHeld(m))' = Held(TenantHeld(m))
                              - BytesIn(s, i, HoldsLocal) + BytesIn(s, i, HoldsLocal)'
<1> DEFINE p == <<s, i>>
<1>1. p \in Slots /\ p[1] = s /\ p[2] = i /\ i # 0
  BY ConstantTypes DEF Slots, Segments
<1>2. ASSUME NEW q \in Slots, q # p
      PROVE  TenantHeld(m)'[q] = TenantHeld(m)[q]
  <2>1. SegmentBytes(q, HoldsLocal)' = SegmentBytes(q, HoldsLocal)
    BY <1>2, OtherSlots DEF HoldsLocal, SegmentStates
  <2>2. QED
    BY <1>2, <2>1 DEF TenantHeld
<1>3. /\ TenantHeld(m)[p] = IF budget[s] = m THEN BytesIn(s, i, HoldsLocal) ELSE 0
      /\ TenantHeld(m)'[p] = IF budget[s] = m THEN BytesIn(s, i, HoldsLocal)' ELSE 0
  BY <1>1 DEF TenantHeld, SegmentBytes, BytesIn
<1>4. TenantHeld(m) \in Holdings /\ TenantHeld(m)' \in Holdings
  BY SlotTypes, SlotTypesNext DEF SlotsTyped, Holdings, Slots, MaxHeld, Semaphores
<1>5. Held(TenantHeld(m)) \in Nat
  BY <1>4, HeldType
<1> HIDE DEF p
<1>6. Held(TenantHeld(m)') = Held(TenantHeld(m)) - TenantHeld(m)[p] + TenantHeld(m)'[p]
  BY <1>1, <1>2, <1>4, HeldUpdate
<1>7. QED
  BY <1>3, <1>5, <1>6

\* Steps that move nothing keep the accounts.
LEMMA QuietAccounts ==
  ASSUME Accounts, Quiet
  PROVE  Accounts'
<1>1. GlobalHeld' = GlobalHeld
  BY GlobalQuiet DEF Quiet
<1>2. CountedBytes' = CountedBytes
  BY DEF Quiet, SameSegments, CountedBytes, SegmentBytes, Slots, Counted
<1>3. ASSUME NEW m \in Semaphores PROVE TenantHeld(m)' = TenantHeld(m)
  BY DEF Quiet, SameSegments, TenantHeld, SegmentBytes, Slots, HoldsLocal, SegmentStates
<1>4. GlobalPermitsConserved'
  BY <1>1 DEF Accounts, Quiet, GlobalPermitsConserved, Held, HeldBytes
<1>5. TenantPermitsConserved'
  <2>1. ASSUME NEW m \in Semaphores PROVE Held(TenantHeld(m))' = Held(TenantHeld(m))
    BY <1>3 DEF Held, HeldBytes
  <2>2. QED
    BY <2>1 DEF Accounts, Quiet, TenantPermitsConserved, Semaphores
<1>6. inUse' = Held(CountedBytes)'
  BY <1>2 DEF Accounts, Quiet, Held, HeldBytes
<1>7. QED
  BY <1>4, <1>5, <1>6 DEF Accounts

\* Steps that move one segment and book the change keep the accounts.
LEMMA BooksAccounts ==
  ASSUME TypeOK, TypeOK', Accounts, NEW s \in Streams, NEW i \in Segments, Books(s, i)
  PROVE  Accounts'
<1>0. /\ globalFree \in Int /\ inUse \in Int /\ budget[s] \in Semaphores
      /\ tenantFree \in [Semaphores -> Int] /\ GlobalMemory \in Nat /\ TenantMemory \in Nat
      /\ GlobalHeld \in Holdings /\ CountedBytes \in Holdings
      /\ \A m \in Semaphores : TenantHeld(m) \in Holdings
  BY ConstantTypes, SlotTypes, Zenon DEF TypeOK, SlotsTyped
<1>1. ASSUME NEW states
      PROVE  BytesIn(s, i, states) \in Int /\ BytesIn(s, i, states)' \in Int
  BY ConstantTypes DEF TypeOK, BytesIn
<1>2. /\ Held(GlobalHeld) \in Nat /\ Held(CountedBytes) \in Nat
      /\ \A m \in Semaphores : Held(TenantHeld(m)) \in Nat
  BY <1>0, HeldType
<1>3. GlobalPermitsConserved'
  <2>1. Held(GlobalHeld)' = Held(GlobalHeld) - BytesIn(s, i, HoldsGlobal)
                                             + BytesIn(s, i, HoldsGlobal)'
    BY GlobalSegment DEF Books
  <2>2. BytesIn(s, i, HoldsGlobal) \in Int /\ BytesIn(s, i, HoldsGlobal)' \in Int
    BY <1>1 DEF HoldsGlobal
  <2>3. /\ globalFree' >= 0
        /\ globalFree' = globalFree + BytesIn(s, i, HoldsGlobal)
                                    - BytesIn(s, i, HoldsGlobal)'
    BY DEF Books
  <2>4. globalFree + Held(GlobalHeld) = GlobalMemory
    BY DEF Accounts, GlobalPermitsConserved
  <2>5. globalFree' + Held(GlobalHeld)' = GlobalMemory
    BY <1>0, <1>2, <2>1, <2>2, <2>3, <2>4
  <2>6. QED
    BY <2>3, <2>5 DEF GlobalPermitsConserved
<1>4. TenantPermitsConserved'
  <2>1. BytesIn(s, i, HoldsLocal) \in Int /\ BytesIn(s, i, HoldsLocal)' \in Int
    BY <1>1 DEF HoldsLocal, SegmentStates
  <2>2. ASSUME NEW m \in Semaphores
        PROVE  tenantFree'[m] >= 0 /\ tenantFree'[m] + Held(TenantHeld(m))' = TenantMemory
    <3>1. /\ budget[s] # m => Held(TenantHeld(m))' = Held(TenantHeld(m))
          /\ budget[s] = m => Held(TenantHeld(m))' = Held(TenantHeld(m))
                              - BytesIn(s, i, HoldsLocal) + BytesIn(s, i, HoldsLocal)'
      BY TenantSegment DEF Books
    <3>2. tenantFree[m] >= 0 /\ tenantFree[m] + Held(TenantHeld(m)) = TenantMemory
      BY DEF Accounts, TenantPermitsConserved
    <3>3. CASE budget[s] # m
      BY <3>1, <3>2, <3>3 DEF Books
    <3>4. CASE budget[s] = m
      <4>1. /\ tenantFree'[m] >= 0
            /\ tenantFree'[m] = tenantFree[m] + BytesIn(s, i, HoldsLocal)
                                              - BytesIn(s, i, HoldsLocal)'
        BY <3>4 DEF Books
      <4>2. tenantFree[m] \in Int /\ Held(TenantHeld(m)) \in Int
        BY <1>0, <1>2
      <4>3. QED
        BY <1>0, <2>1, <3>1, <3>2, <3>4, <4>1, <4>2
    <3>5. QED
      BY <3>3, <3>4
  <2>3. QED
    BY <2>2 DEF TenantPermitsConserved, Semaphores
<1>5. inUse' = Held(CountedBytes)'
  <2>1. Held(CountedBytes)' = Held(CountedBytes) - BytesIn(s, i, Counted)
                                                 + BytesIn(s, i, Counted)'
    BY CountedSegment DEF Books
  <2>2. QED
    BY <2>1 DEF Accounts, Books
<1>6. QED
  BY <1>3, <1>4, <1>5 DEF Accounts

\* Steps that take or return a chunk keep the accounts.
LEMMA ChunkAccounts ==
  ASSUME TypeOK, TypeOK', Accounts, SameSegments,
         budget' = budget, tenantFree' = tenantFree, inUse' = inUse, globalFree' >= 0,
         NEW d \in Int, globalFree' = globalFree - d,
         Held(GlobalHeld)' = Held(GlobalHeld) + d
  PROVE  Accounts'
<1>1. CountedBytes' = CountedBytes
  BY DEF SameSegments, CountedBytes, SegmentBytes, Slots, Counted
<1>2. ASSUME NEW m \in Semaphores PROVE TenantHeld(m)' = TenantHeld(m)
  BY DEF SameSegments, TenantHeld, SegmentBytes, Slots, HoldsLocal, SegmentStates
<1>3. /\ Held(CountedBytes)' = Held(CountedBytes)
      /\ \A m \in Semaphores : Held(TenantHeld(m))' = Held(TenantHeld(m))
  BY <1>1, <1>2 DEF Held, HeldBytes
<1>4. Held(GlobalHeld) \in Nat /\ globalFree \in Int
  BY SlotTypes, HeldType DEF SlotsTyped, TypeOK
<1>5. GlobalPermitsConserved'
  BY <1>4 DEF Accounts, GlobalPermitsConserved
<1>6. QED
  BY <1>3, <1>5 DEF Accounts, TenantPermitsConserved, Semaphores

\* A failed enqueue happens inside the task and keeps its chunk.
LEMMA EnqueueFailedKeepsChunk ==
  ASSUME TypeOK, TaskConsistent, NEW s \in Streams, rest[s] > 0, EnqueueFailed(s)
  PROVE  SameChunks
<1>1. phase[s] \in {"loop", "finish", "terminal"}
  BY DEF TaskConsistent, TaskOK
<1>2. QED
  BY <1>1, EnqueueFailedOutcome DEF SameChunks, OnlyPhase, HoldsMemoryChunk

\* Every step keeps the three accounts.
LEMMA AccountsStep ==
  ASSUME TypeOK, TypeOK', TaskConsistent, Accounts, [Next]_vars
  PROVE  Accounts'
<1> USE ConstantTypes DEF Goto, segmentVars, admissionVars
<1>0. /\ phase \in [Streams -> Phases] /\ rest \in [Streams -> Int]
      /\ seg \in [Streams -> [Segments -> SegmentStates]]
      /\ size \in [Streams -> [Segments -> 0 .. OutputByteBudget]]
      /\ cur \in [Streams -> 0 .. MaxSegments]
      /\ budget \in [Streams -> Semaphores]
      /\ tenantFree \in [Semaphores -> Int] /\ globalFree \in Int /\ inUse \in Int
      /\ \A r \in Streams : TaskOK(r)
      /\ globalFree >= 0 /\ \A m \in Semaphores : tenantFree[m] >= 0
  BY DEF TypeOK, TaskConsistent, Accounts, GlobalPermitsConserved, TenantPermitsConserved
<1>1. ASSUME NEW s \in Streams, Arrive(s)
      PROVE  Accounts'
  BY <1>0, <1>1, QuietAccounts
  DEF Arrive, Quiet, SameChunks, SameSegments, HoldsMemoryChunk
<1>2. ASSUME NEW s \in Streams, StreamPermit(s)
      PROVE  Accounts'
  BY <1>0, <1>2, QuietAccounts
  DEF StreamPermit, Quiet, SameChunks, SameSegments, HoldsMemoryChunk
<1>3. ASSUME NEW s \in Streams, MemoryPermit(s)
      PROVE  Accounts'
  <2>1. SameSegments /\ OnlyPhase(s) /\ budget' = budget /\ tenantFree' = tenantFree
        /\ inUse' = inUse
    BY <1>0, <1>3 DEF MemoryPermit, SameSegments, OnlyPhase
  <2>2. Held(GlobalHeld)' = Held(GlobalHeld) + GlobalMemoryChunk
    BY <1>0, <1>3, <2>1, GlobalChunk, ZenonT(30) DEF MemoryPermit, HoldsMemoryChunk
  <2>3. globalFree' = globalFree - GlobalMemoryChunk /\ globalFree' >= 0
    BY <1>0, <1>3 DEF MemoryPermit, ChunkGranted
  <2>4. QED
    BY <2>1, <2>2, <2>3, ChunkAccounts
<1>4. ASSUME NEW s \in Streams, MemoryTimeout(s)
      PROVE  Accounts'
  BY <1>0, <1>4, QuietAccounts
  DEF MemoryTimeout, Quiet, SameChunks, SameSegments, HoldsMemoryChunk
<1>5. ASSUME NEW s \in Streams, HandlerDropped(s)
      PROVE  Accounts'
  BY <1>0, <1>5, QuietAccounts
  DEF HandlerDropped, Quiet, SameChunks, SameSegments, HoldsMemoryChunk
<1>6. ASSUME NEW s \in Streams, UpstreamFailed(s)
      PROVE  Accounts'
  BY <1>0, <1>6, QuietAccounts
  DEF UpstreamFailed, Quiet, SameChunks, SameSegments, HoldsMemoryChunk
<1>7. ASSUME NEW s \in Streams, NEW t \in Tenants, NEW isSse \in BOOLEAN, UpstreamAnswers(s, t, isSse)
      PROVE  Accounts'
  <2>1. \A i \in Segments : seg[s][i] = "none"
    BY <1>0, <1>7 DEF UpstreamAnswers, TaskOK, BeforeTask
  <2>2. SameSegments /\ SameChunks /\ globalFree' = globalFree
        /\ tenantFree' = tenantFree /\ inUse' = inUse
    BY <1>0, <1>7 DEF UpstreamAnswers, SameSegments, SameChunks, HoldsMemoryChunk
  <2>3. \A r \in Streams : r # s => budget'[r] = budget[r]
    BY <1>0, <1>7 DEF UpstreamAnswers
  <2>4. ASSUME NEW m \in Semaphores PROVE TenantHeld(m)' = TenantHeld(m)
    <3>1. ASSUME NEW p \in Slots
          PROVE  /\ SegmentBytes(p, HoldsLocal)' = SegmentBytes(p, HoldsLocal)
                 /\ p[1] = s => SegmentBytes(p, HoldsLocal) = 0
                 /\ p[1] # s => budget'[p[1]] = budget[p[1]]
      <4>1. p[1] \in Streams /\ (p[2] # 0 => p[2] \in Segments)
        BY DEF Slots, Segments
      <4>2. SegmentBytes(p, HoldsLocal)' = SegmentBytes(p, HoldsLocal)
        BY <2>2, <4>1 DEF SameSegments, SegmentBytes, HoldsLocal, SegmentStates
      <4>3. ASSUME p[1] = s PROVE SegmentBytes(p, HoldsLocal) = 0
        BY <2>1, <4>1, <4>3 DEF SegmentBytes, HoldsLocal
      <4>4. QED
        BY <2>3, <4>1, <4>2, <4>3
    <3>2. QED
      BY <3>1 DEF TenantHeld
  <2>5. CountedBytes' = CountedBytes
    BY <2>2 DEF SameSegments, CountedBytes, SegmentBytes, Slots, Counted
  <2>6. GlobalHeld' = GlobalHeld
    BY <2>2, GlobalQuiet
  <2>7. /\ Held(GlobalHeld)' = Held(GlobalHeld)
        /\ Held(CountedBytes)' = Held(CountedBytes)
        /\ \A m \in Semaphores : Held(TenantHeld(m))' = Held(TenantHeld(m))
    BY <2>4, <2>5, <2>6 DEF Held, HeldBytes
  <2>8. QED
    BY <2>2, <2>7 DEF Accounts, GlobalPermitsConserved, TenantPermitsConserved, Semaphores
<1>8. ASSUME NEW s \in Streams, NEW n \in 1 .. MaxOutput, Enqueue(s, n)
      PROVE  Accounts'
  BY <1>0, <1>8, QuietAccounts
  DEF Enqueue, Quiet, SameChunks, SameSegments, HoldsMemoryChunk
<1>9. ASSUME NEW s \in Streams, TenantPermit(s)
      PROVE  Accounts'
  <2>1. PICK i \in Segments : i = cur[s] + 1
    BY <1>0, <1>9 DEF TenantPermit, ReadyToReserve, Segments
  <2>2. seg[s][i] = "none" /\ Slice(s) \in Nat
    BY <1>0, <1>9, <2>1 DEF TenantPermit, ReadyToReserve, Slice, Segments, TaskOK
  <2>3. SameChunks
    BY <1>9 DEF TenantPermit, SameChunks
  <2>4. OnlySegment(s, i) /\ budget' = budget
    BY <1>0, <1>9, <2>1 DEF TenantPermit, OnlySegment
  <2>5. seg'[s][i] = "local" /\ size'[s][i] = Slice(s)
    BY <1>0, <1>9, <2>1 DEF TenantPermit
  <2>6. /\ tenantFree'[budget[s]] = tenantFree[budget[s]] - Slice(s)
        /\ tenantFree'[budget[s]] >= 0
        /\ \A m \in Semaphores : m # budget[s] => tenantFree'[m] = tenantFree[m]
    BY <1>0, <1>9, <2>2 DEF TenantPermit
  <2>7. globalFree' = globalFree /\ inUse' = inUse
    BY <1>9 DEF TenantPermit
  <2>8. Books(s, i)
    <3>1. /\ BytesIn(s, i, HoldsGlobal) = 0 /\ BytesIn(s, i, HoldsGlobal)' = 0
          /\ BytesIn(s, i, Counted) = 0 /\ BytesIn(s, i, Counted)' = 0
          /\ BytesIn(s, i, HoldsLocal) = 0 /\ BytesIn(s, i, HoldsLocal)' = Slice(s)
      BY <2>2, <2>5 DEF BytesIn, HoldsGlobal, HoldsLocal, Counted, SegmentStates
    <3>2. tenantFree[budget[s]] \in Int
      BY <1>0
    <3>3. QED
      BY <1>0, <2>2, <2>3, <2>4, <2>6, <2>7, <3>1, <3>2 DEF Books
  <2>9. QED
    BY <2>8, BooksAccounts
<1>10. ASSUME NEW s \in Streams, TenantLimitExceeded(s)
      PROVE  Accounts'
  <2>1. SameChunks
    BY <1>10, EnqueueFailedKeepsChunk, ZenonT(40) DEF TenantLimitExceeded, ReadyToReserve
  <2>2. QED
    BY <1>10, <2>1, QuietAccounts, ZenonT(40) DEF TenantLimitExceeded, Quiet, SameSegments
<1>11. ASSUME NEW s \in Streams, NEW i \in Segments, GlobalPermit(s, i)
      PROVE  Accounts'
  <2>1. SameChunks
    BY <1>11 DEF GlobalPermit, SameChunks
  <2>2. OnlySegment(s, i) /\ budget' = budget
    BY <1>0, <1>11 DEF GlobalPermit, OnlySegment
  <2>3. Books(s, i)
    BY <1>0, <1>11, <2>1, <2>2 DEF GlobalPermit, GlobalAvailable, Books, BytesIn,
       HoldsGlobal, HoldsLocal, Counted, SegmentStates
  <2>4. QED
    BY <2>3, BooksAccounts
<1>12. ASSUME NEW s \in Streams, NEW i \in Segments, GlobalLimitExceeded(s, i)
      PROVE  Accounts'
  <2>1. SameChunks
    <3>1. rest[s] > 0
      BY <1>0, <1>12 DEF GlobalLimitExceeded, TaskOK, Reserving
    <3>2. QED
      BY <1>12, <3>1, EnqueueFailedKeepsChunk DEF GlobalLimitExceeded
  <2>2. OnlySegment(s, i) /\ budget' = budget
    BY <1>0, <1>12 DEF GlobalLimitExceeded, OnlySegment
  <2>3. Books(s, i)
    BY <1>0, <1>12, <2>1, <2>2 DEF GlobalLimitExceeded, Books, BytesIn,
       HoldsGlobal, HoldsLocal, Counted, SegmentStates
  <2>4. QED
    BY <2>3, BooksAccounts
<1>13. ASSUME NEW s \in Streams, NEW i \in Segments, RecordInUse(s, i)
      PROVE  Accounts'
  <2>1. SameChunks
    BY <1>13 DEF RecordInUse, SameChunks
  <2>2. OnlySegment(s, i) /\ budget' = budget
    BY <1>0, <1>13 DEF RecordInUse, OnlySegment
  <2>3. Books(s, i)
    BY <1>0, <1>13, <2>1, <2>2 DEF RecordInUse, Books, BytesIn,
       HoldsGlobal, HoldsLocal, Counted, SegmentStates
  <2>4. QED
    BY <2>3, BooksAccounts
<1>14. ASSUME NEW s \in Streams, NEW i \in Segments, Send(s, i)
      PROVE  Accounts'
  <2>1. SameChunks
    BY <1>14 DEF Send, SameChunks
  <2>2. OnlySegment(s, i) /\ budget' = budget
    BY <1>0, <1>14 DEF Send, OnlySegment
  <2>3. Books(s, i)
    BY <1>0, <1>14, <2>1, <2>2 DEF Send, Books, BytesIn,
       HoldsGlobal, HoldsLocal, Counted, SegmentStates
  <2>4. QED
    BY <2>3, BooksAccounts
<1>15. ASSUME NEW s \in Streams, NEW i \in Segments, EnqueueTimeout(s, i)
      PROVE  Accounts'
  <2>1. SameChunks
    <3>1. rest[s] > 0
      BY <1>0, <1>15 DEF EnqueueTimeout, TaskOK, Reserving
    <3>2. QED
      BY <1>15, <3>1, EnqueueFailedKeepsChunk DEF EnqueueTimeout
  <2>2. OnlySegment(s, i) /\ budget' = budget
    BY <1>0, <1>15 DEF EnqueueTimeout, OnlySegment
  <2>3. Books(s, i)
    BY <1>0, <1>15, <2>1, <2>2 DEF EnqueueTimeout, Books, BytesIn,
       HoldsGlobal, HoldsLocal, Counted, SegmentStates
  <2>4. QED
    BY <2>3, BooksAccounts
<1>16. ASSUME NEW s \in Streams, NEW i \in Segments, SendClosed(s, i)
      PROVE  Accounts'
  <2>1. SameChunks
    <3>1. rest[s] > 0
      BY <1>0, <1>16 DEF SendClosed, TaskOK, Reserving
    <3>2. QED
      BY <1>16, <3>1, EnqueueFailedKeepsChunk DEF SendClosed
  <2>2. OnlySegment(s, i) /\ budget' = budget
    BY <1>0, <1>16 DEF SendClosed, OnlySegment
  <2>3. Books(s, i)
    BY <1>0, <1>16, <2>1, <2>2 DEF SendClosed, Books, BytesIn,
       HoldsGlobal, HoldsLocal, Counted, SegmentStates
  <2>4. QED
    BY <2>3, BooksAccounts
<1>17. ASSUME NEW s \in Streams, StreamEnds(s)
      PROVE  Accounts'
  BY <1>0, <1>17, QuietAccounts
  DEF StreamEnds, Quiet, SameChunks, SameSegments, HoldsMemoryChunk
<1>18. ASSUME NEW s \in Streams, StreamError(s)
      PROVE  Accounts'
  BY <1>0, <1>18, QuietAccounts
  DEF StreamError, Quiet, SameChunks, SameSegments, HoldsMemoryChunk
<1>19. ASSUME NEW s \in Streams, TaskReturns(s)
      PROVE  Accounts'
  BY <1>0, <1>19, QuietAccounts
  DEF TaskReturns, Quiet, SameChunks, SameSegments, HoldsMemoryChunk
<1>20. ASSUME NEW s \in Streams, UnwindMemory(s)
      PROVE  Accounts'
  <2>1. SameSegments /\ OnlyPhase(s) /\ budget' = budget /\ tenantFree' = tenantFree
        /\ inUse' = inUse
    BY <1>0, <1>20 DEF UnwindMemory, SameSegments, OnlyPhase
  <2>2. Held(GlobalHeld)' = Held(GlobalHeld) + (0 - GlobalMemoryChunk)
    <3>1. Held(GlobalHeld)' = Held(GlobalHeld) - GlobalMemoryChunk
      BY <1>0, <1>20, <2>1, GlobalChunk DEF UnwindMemory, HoldsMemoryChunk
    <3>2. Held(GlobalHeld) \in Nat
      BY SlotTypes, HeldType DEF SlotsTyped
    <3>3. QED
      BY <3>1, <3>2
  <2>3. globalFree' = globalFree - (0 - GlobalMemoryChunk) /\ globalFree' >= 0
    BY <1>0, <1>20 DEF UnwindMemory
  <2>4. QED
    BY <2>1, <2>2, <2>3, ChunkAccounts
<1>21. ASSUME NEW s \in Streams, UnwindStream(s)
      PROVE  Accounts'
  BY <1>0, <1>21, QuietAccounts
  DEF UnwindStream, Quiet, SameChunks, SameSegments, HoldsMemoryChunk
<1>22. ASSUME NEW s \in Streams, UnwindGuard(s)
      PROVE  Accounts'
  BY <1>0, <1>22, QuietAccounts
  DEF UnwindGuard, Quiet, SameChunks, SameSegments, HoldsMemoryChunk
<1>23. ASSUME NEW s \in Streams, PollFrame(s)
      PROVE  Accounts'
  BY <1>0, <1>23, QuietAccounts
  DEF PollFrame, Quiet, SameChunks, SameSegments, HoldsMemoryChunk
<1>24. ASSUME NEW s \in Streams, NEW i \in Segments, ReceiveFrame(s, i)
      PROVE  Accounts'
  <2>1. SameChunks
    BY <1>24 DEF ReceiveFrame, SameChunks
  <2>2. OnlySegment(s, i) /\ budget' = budget
    BY <1>0, <1>24 DEF ReceiveFrame, OnlySegment
  <2>3. Books(s, i)
    BY <1>0, <1>24, <2>1, <2>2 DEF ReceiveFrame, FirstQueued, Queued, Books, BytesIn,
       HoldsGlobal, HoldsLocal, Counted, SegmentStates
  <2>4. QED
    BY <2>3, BooksAccounts
<1>25. ASSUME NEW s \in Streams, ReceiveNothing(s)
      PROVE  Accounts'
  BY <1>0, <1>25, QuietAccounts
  DEF ReceiveNothing, Quiet, SameChunks, SameSegments, HoldsMemoryChunk
<1>26. ASSUME NEW s \in Streams, BodyDropped(s)
      PROVE  Accounts'
  BY <1>0, <1>26, QuietAccounts
  DEF BodyDropped, Quiet, SameChunks, SameSegments, HoldsMemoryChunk
<1>27. ASSUME NEW s \in Streams, NEW i \in Segments, DropCounter(s, i)
      PROVE  Accounts'
  <2>1. SameChunks
    BY <1>27 DEF DropCounter, SameChunks
  <2>2. OnlySegment(s, i) /\ budget' = budget
    BY <1>0, <1>27 DEF DropCounter, OnlySegment
  <2>3. Books(s, i)
    BY <1>0, <1>27, <2>1, <2>2 DEF DropCounter, DropStarts, FirstQueued, Queued, Books, BytesIn,
       HoldsGlobal, HoldsLocal, Counted, SegmentStates
  <2>4. QED
    BY <2>3, BooksAccounts
<1>28. ASSUME NEW s \in Streams, NEW i \in Segments, DropGlobalPermit(s, i)
      PROVE  Accounts'
  <2>1. SameChunks
    BY <1>28 DEF DropGlobalPermit, SameChunks
  <2>2. OnlySegment(s, i) /\ budget' = budget
    BY <1>0, <1>28 DEF DropGlobalPermit, OnlySegment
  <2>3. Books(s, i)
    BY <1>0, <1>28, <2>1, <2>2 DEF DropGlobalPermit, Books, BytesIn,
       HoldsGlobal, HoldsLocal, Counted, SegmentStates
  <2>4. QED
    BY <2>3, BooksAccounts
<1>29. ASSUME NEW s \in Streams, NEW i \in Segments, DropLocalPermit(s, i)
      PROVE  Accounts'
  <2>1. SameChunks
    BY <1>29 DEF DropLocalPermit, SameChunks
  <2>2. OnlySegment(s, i) /\ budget' = budget
    BY <1>0, <1>29 DEF DropLocalPermit, OnlySegment
  <2>3. Books(s, i)
    BY <1>0, <1>29, <2>1, <2>2 DEF DropLocalPermit, Books, BytesIn,
       HoldsGlobal, HoldsLocal, Counted, SegmentStates
  <2>4. QED
    BY <2>3, BooksAccounts
<1>30. ASSUME NEW s \in Streams, Recycle(s)
      PROVE  Accounts'
  BY <1>0, <1>30, QuietAccounts
  DEF Recycle, Quiet, SameChunks, SameSegments, HoldsMemoryChunk
<1>31. CASE ReloadKeyring
  BY <1>31, QuietAccounts DEF ReloadKeyring, Quiet, SameChunks, SameSegments
<1>32. CASE UNCHANGED vars
  BY <1>32, QuietAccounts DEF vars, Quiet, SameChunks, SameSegments
<1>33. QED
  BY <1>1, <1>2, <1>3, <1>4, <1>5, <1>6, <1>7, <1>8, <1>9, <1>10,
     <1>11, <1>12, <1>13, <1>14, <1>15, <1>16, <1>17, <1>18, <1>19, <1>20,
     <1>21, <1>22, <1>23, <1>24, <1>25, <1>26, <1>27, <1>28, <1>29, <1>30,
     <1>31, <1>32
  DEF Next, StreamStep, Handler, ReserveAndSend, Unwind, Receive, DropSegment

\* The initial state: nothing is held.
LEMMA InitAccounts == Init => TypeOK /\ TaskConsistent /\ Accounts
<1> SUFFICES ASSUME Init PROVE TypeOK /\ TaskConsistent /\ Accounts
  OBVIOUS
<1>1. TypeOK
  BY ConstantTypes DEF Init, TypeOK, Phases, SegmentStates, Semaphores, Segments
<1>2. TaskConsistent
  BY InitTasks
<1>3. ASSUME NEW p \in Slots
      PROVE  /\ ChunkBytes(p) = 0
             /\ SegmentBytes(p, HoldsGlobal) = 0
             /\ SegmentBytes(p, HoldsLocal) = 0
             /\ SegmentBytes(p, Counted) = 0
  BY DEF Init, ChunkBytes, SegmentBytes, Slots, HoldsMemoryChunk, HoldsGlobal, HoldsLocal,
         SegmentStates, Counted, Segments
<1>4. /\ \A p \in Slots : GlobalHeld[p] = 0
      /\ \A p \in Slots : CountedBytes[p] = 0
      /\ \A m \in Semaphores : \A p \in Slots : TenantHeld(m)[p] = 0
  BY <1>3 DEF GlobalHeld, CountedBytes, TenantHeld
<1>5. /\ GlobalHeld \in Holdings /\ CountedBytes \in Holdings
      /\ \A m \in Semaphores : TenantHeld(m) \in Holdings
  BY <1>1, SlotTypes DEF SlotsTyped
<1>6. /\ Held(GlobalHeld) = 0 /\ Held(CountedBytes) = 0
      /\ \A m \in Semaphores : Held(TenantHeld(m)) = 0
  BY <1>4, <1>5, HeldZero
<1>7. Accounts
  BY <1>6, ConstantTypes
  DEF Init, Accounts, GlobalPermitsConserved, TenantPermitsConserved
<1>8. QED
  BY <1>1, <1>2, <1>7

\* The inductive invariant behind the conservation theorems.
THEOREM AccountsInvariant == Spec => [](TypeOK /\ TaskConsistent /\ Accounts)
<1>1. Init => TypeOK /\ TaskConsistent /\ Accounts
  BY InitAccounts
<1>2. TypeOK /\ TaskConsistent /\ Accounts /\ [Next]_vars
        => (TypeOK /\ TaskConsistent /\ Accounts)'
  BY TypeStep, TaskStep, AccountsStep
<1>3. QED
  BY <1>1, <1>2, PTL DEF Spec

\* global_memory never loses or invents a permit, for any number of streams and
\* any sizes: what tasks and segments hold and what is free is the budget.
THEOREM GlobalConserved == Spec => []GlobalPermitsConserved
<1>1. Accounts => GlobalPermitsConserved
  BY DEF Accounts
<1>2. QED
  BY <1>1, AccountsInvariant, PTL

\* Every tenant semaphore is exact, across any number of keyring reloads.
THEOREM TenantConserved == Spec => []TenantPermitsConserved
<1>1. Accounts => TenantPermitsConserved
  BY DEF Accounts
<1>2. QED
  BY <1>1, AccountsInvariant, PTL

\* PROXY_BYTE_BUDGET_IN_USE is exact, so fetch_sub never wraps, and it stays
\* within what global_memory has granted.
THEOREM InUseIsExact == Spec => []InUseExact
<1>1. TypeOK /\ Accounts => InUseExact
  <2> SUFFICES ASSUME TypeOK, Accounts PROVE InUseExact
    OBVIOUS
  <2>1. GlobalHeld \in Holdings /\ CountedBytes \in Holdings
    BY SlotTypes DEF SlotsTyped
  <2>2. \A p \in Slots : CountedBytes[p] <= GlobalHeld[p]
    <3>1. ASSUME NEW p \in Slots PROVE CountedBytes[p] <= GlobalHeld[p]
      <4>1. CASE p[2] = 0
        BY <2>1, <4>1, ConstantTypes
        DEF CountedBytes, GlobalHeld, SegmentBytes, ChunkBytes
      <4>2. CASE p[2] # 0
        <5>1. size[p[1]][p[2]] \in 0 .. OutputByteBudget
          BY <4>2, ConstantTypes DEF TypeOK, Slots, Segments
        <5>2. QED
          BY <4>2, <5>1, ConstantTypes
          DEF CountedBytes, GlobalHeld, SegmentBytes, Counted, HoldsGlobal
      <4>3. QED
        BY <4>1, <4>2
    <3>2. QED
      BY <3>1
  <2>3. Held(CountedBytes) <= Held(GlobalHeld)
    BY <2>1, <2>2, HeldMonotone
  <2>4. Held(CountedBytes) \in Nat /\ Held(GlobalHeld) \in Nat /\ globalFree \in Int
    BY <2>1, HeldType DEF TypeOK
  <2>5. QED
    BY <2>3, <2>4, ConstantTypes DEF Accounts, GlobalPermitsConserved, InUseExact
<1>2. QED
  BY <1>1, AccountsInvariant, PTL

-----------------------------------------------------------------------------
(***************************************************************************)
(* All the semaphores of one tenant together.                              *)
(***************************************************************************)

\* A stream uses a semaphore of a map that exists or existed.
BudgetsNotNewer == \A s \in Streams : budget[s][2] <= epoch

\* Steps other than an answer of the upstream and a reload leave both alone.
LEMMA BudgetMoves ==
  ASSUME Next
  PROVE  \/ budget' = budget /\ epoch' = epoch
         \/ \E s \in Streams, t \in Tenants :
              budget' = [budget EXCEPT ![s] = <<t, epoch>>] /\ epoch' = epoch
         \/ budget' = budget /\ epoch' = epoch + 1
<1>1. ASSUME NEW s \in Streams, Arrive(s) \/ HandlerDropped(s)
      PROVE  budget' = budget /\ epoch' = epoch
  BY <1>1, Zenon DEF Arrive, HandlerDropped
<1>2. ASSUME NEW s \in Streams, Handler(s)
      PROVE  \/ budget' = budget /\ epoch' = epoch
             \/ \E t \in Tenants :
                  budget' = [budget EXCEPT ![s] = <<t, epoch>>] /\ epoch' = epoch
  BY <1>2, Zenon
  DEF Handler, StreamPermit, MemoryPermit, MemoryTimeout, UpstreamFailed, UpstreamAnswers
<1>3. ASSUME NEW s \in Streams, ReserveAndSend(s) \/ \E n \in 1 .. MaxOutput : Enqueue(s, n)
      PROVE  budget' = budget /\ epoch' = epoch
  BY <1>3, Zenon
  DEF ReserveAndSend, Enqueue, TenantPermit, TenantLimitExceeded, GlobalPermit,
      GlobalLimitExceeded, RecordInUse, Send, EnqueueTimeout, SendClosed
<1>4. ASSUME NEW s \in Streams,
             StreamEnds(s) \/ StreamError(s) \/ TaskReturns(s) \/ Unwind(s) \/ Recycle(s)
      PROVE  budget' = budget /\ epoch' = epoch
  BY <1>4, Zenon
  DEF StreamEnds, StreamError, TaskReturns, Unwind, UnwindMemory, UnwindStream,
      UnwindGuard, Recycle
<1>5. ASSUME NEW s \in Streams,
             PollFrame(s) \/ Receive(s) \/ BodyDropped(s) \/ DropSegment(s)
      PROVE  budget' = budget /\ epoch' = epoch
  BY <1>5, Zenon
  DEF PollFrame, Receive, ReceiveFrame, ReceiveNothing, BodyDropped, DropSegment,
      DropCounter, DropGlobalPermit, DropLocalPermit
<1>6. ASSUME ReloadKeyring PROVE budget' = budget /\ epoch' = epoch + 1
  BY <1>6, Zenon DEF ReloadKeyring
<1>7. QED
  BY <1>1, <1>2, <1>3, <1>4, <1>5, <1>6, ZenonT(40) DEF Next, StreamStep

\* The semaphores in use stay among those the map has had.
LEMMA BudgetsStep ==
  ASSUME TypeOK, BudgetsNotNewer, [Next]_vars
  PROVE  BudgetsNotNewer'
<1>1. budget \in [Streams -> Semaphores] /\ epoch \in Int
  BY ConstantTypes DEF TypeOK
<1>2. ASSUME NEW s \in Streams PROVE budget[s][2] \in Int
  BY <1>1, ConstantTypes DEF Semaphores
<1>3. CASE budget' = budget /\ (epoch' = epoch \/ epoch' = epoch + 1)
  BY <1>1, <1>2, <1>3 DEF BudgetsNotNewer
<1>4. CASE \E s \in Streams, t \in Tenants :
             budget' = [budget EXCEPT ![s] = <<t, epoch>>] /\ epoch' = epoch
  BY <1>1, <1>4 DEF BudgetsNotNewer
<1>5. CASE UNCHANGED vars
  BY <1>5 DEF vars, BudgetsNotNewer
<1>6. QED
  BY <1>3, <1>4, <1>5, BudgetMoves

\* What is held here or there is at most what is held here and what is there.
LEMMA HeldTogether ==
  ASSUME NEW f, NEW g, NEW h,
         \A q \in Slots : h[q] = f[q] \/ h[q] = g[q]
  PROVE  Held(h) <= Held(f) + Held(g)
<1>1. HeldBytes(h) \subseteq HeldBytes(f) \cup HeldBytes(g)
  BY DEF HeldBytes
<1>2. /\ IsFiniteSet(HeldBytes(f)) /\ IsFiniteSet(HeldBytes(g))
      /\ IsFiniteSet(HeldBytes(f) \cap HeldBytes(g))
  BY HeldBytesFinite, FS_Subset
<1>3. /\ IsFiniteSet(HeldBytes(f) \cup HeldBytes(g))
      /\ Cardinality(HeldBytes(f) \cup HeldBytes(g))
           = Held(f) + Held(g) - Cardinality(HeldBytes(f) \cap HeldBytes(g))
  BY <1>2, FS_Union, Zenon DEF Held
<1>4. Held(h) <= Cardinality(HeldBytes(f) \cup HeldBytes(g))
  BY <1>1, <1>3, FS_Subset, ZenonT(40) DEF Held
<1>5. Cardinality(HeldBytes(f) \cap HeldBytes(g)) \in Nat
  BY <1>2, FS_CardinalityType
<1>6. Held(f) \in Nat /\ Held(g) \in Nat /\ Held(h) \in Nat
  BY HeldType
<1>7. QED
  BY <1>3, <1>4, <1>5, <1>6

\* What the tenant holds from the first n of its semaphores.
FirstBudgets(t, n) == [p \in Slots |-> IF budget[p[1]][1] = t /\ budget[p[1]][2] < n
                                       THEN SegmentBytes(p, HoldsLocal) ELSE 0]

\* One semaphore more is one budget more.
LEMMA NextBudget ==
  ASSUME TypeOK, TenantPermitsConserved, NEW t \in Tenants, NEW n \in 0 .. MaxReloads
  PROVE  Held(FirstBudgets(t, n + 1)) <= Held(FirstBudgets(t, n)) + TenantMemory
<1> DEFINE m == <<t, n>>
<1>1. m \in Semaphores
  BY DEF Semaphores
<1>2. tenantFree[m] \in Int /\ Held(TenantHeld(m)) \in Nat /\ TenantMemory \in Nat
  BY <1>1, HeldType, ConstantTypes DEF TypeOK
<1>3. tenantFree[m] >= 0 /\ tenantFree[m] + Held(TenantHeld(m)) = TenantMemory
  BY <1>1, Zenon DEF TenantPermitsConserved
<1>4. Held(TenantHeld(m)) <= TenantMemory
  BY <1>2, <1>3
<1>5. ASSUME NEW q \in Slots
      PROVE  \/ FirstBudgets(t, n + 1)[q] = FirstBudgets(t, n)[q]
             \/ FirstBudgets(t, n + 1)[q] = TenantHeld(m)[q]
  <2>1. budget[q[1]] \in Semaphores
    BY DEF TypeOK, Slots
  <2>2. budget[q[1]] = <<budget[q[1]][1], budget[q[1]][2]>> /\ budget[q[1]][2] \in Int
    BY <2>1 DEF Semaphores
  <2>3. CASE budget[q[1]][1] = t /\ budget[q[1]][2] = n
    <3>1. budget[q[1]] = m
      BY <2>2, <2>3
    <3>2. n < n + 1
      OBVIOUS
    <3>3. QED
      BY <2>3, <3>1, <3>2 DEF FirstBudgets, TenantHeld
  <2>4. CASE ~(budget[q[1]][1] = t /\ budget[q[1]][2] = n)
    BY <2>2, <2>4 DEF FirstBudgets
  <2>5. QED
    BY <2>3, <2>4
<1> HIDE DEF m
<1>6. Held(FirstBudgets(t, n + 1)) <= Held(FirstBudgets(t, n)) + Held(TenantHeld(m))
  BY <1>5, HeldTogether
<1>7. Held(FirstBudgets(t, n + 1)) \in Nat /\ Held(FirstBudgets(t, n)) \in Nat
  BY HeldType
<1>8. QED
  BY <1>2, <1>4, <1>6, <1>7

\* Of the numbers a claim fails for, one is the least.
LEMMA LeastBad ==
  ASSUME NEW S \in SUBSET Nat, S # {}
  PROVE  \E k \in S : \A j \in S : k <= j
<1> DEFINE Less == OpToRel(<, Nat)
<1>1. \A j, k \in Nat : <<j, k>> \in Less <=> j < k
  BY DEF OpToRel
<1>2. IsWellFoundedOn(Less, Nat)
  BY NatLessThanWellFounded, Zenon
<1> HIDE DEF Less
<1>3. PICK k \in S : \A j \in S : ~(<<j, k>> \in Less)
  BY <1>2, WFMin, Zenon
<1>4. \A j \in S : ~(j < k)
  BY <1>1, <1>3, Zenon
<1>5. \A j \in S : k <= j
  BY <1>4
<1>6. QED
  BY <1>5

\* The first n semaphores of a tenant give out n budgets at most.  The least n
\* they do not would have a predecessor.
LEMMA BudgetsAddUp ==
  ASSUME TypeOK, TenantPermitsConserved, NEW t \in Tenants, NEW n \in 0 .. MaxReloads + 1
  PROVE  Held(FirstBudgets(t, n)) <= TenantMemory * n
<1> DEFINE Bad == {k \in 0 .. MaxReloads + 1 : ~(Held(FirstBudgets(t, k)) <= TenantMemory * k)}
<1>1. SUFFICES ASSUME Bad # {} PROVE FALSE
  OBVIOUS
<1>2. Bad \in SUBSET Nat
  BY ConstantTypes
<1>3. PICK k \in Bad : \A j \in Bad : k <= j
  <2> HIDE DEF Bad
  <2> QED
    BY <1>1, <1>2, LeastBad
<1>4. k \in 0 .. MaxReloads + 1 /\ ~(Held(FirstBudgets(t, k)) <= TenantMemory * k)
  OBVIOUS
<1>5. k # 0
  <2>1. ASSUME NEW q \in Slots PROVE FirstBudgets(t, 0)[q] = 0
    <3>1. budget[q[1]] \in Semaphores
      BY DEF TypeOK, Slots
    <3>2. ~(budget[q[1]][2] < 0)
      BY <3>1 DEF Semaphores
    <3>3. QED
      BY <3>2 DEF FirstBudgets
  <2>2. FirstBudgets(t, 0) = [q \in Slots |-> 0]
    BY <2>1 DEF FirstBudgets
  <2>3. [q \in Slots |-> 0] \in Holdings
    BY ConstantTypes DEF Holdings
  <2>4. Held(FirstBudgets(t, 0)) = 0
    BY <2>1, <2>2, <2>3, HeldZero
  <2>5. TenantMemory * 0 = 0
    BY ConstantTypes
  <2>6. QED
    BY <1>4, <2>4, <2>5
<1> DEFINE j == k - 1
<1>6. j \in 0 .. MaxReloads /\ j \in Nat /\ j < k /\ j + 1 = k /\ k \in Nat
  BY <1>4, <1>5, ConstantTypes
<1>7. j \notin Bad
  BY <1>3, <1>6
<1>8. Held(FirstBudgets(t, j)) <= TenantMemory * j
  BY <1>6, <1>7, ConstantTypes
<1> HIDE DEF j, Bad
<1>9. Held(FirstBudgets(t, k)) <= Held(FirstBudgets(t, j)) + TenantMemory
  BY <1>6, NextBudget
<1>10. TenantMemory * k = TenantMemory * j + TenantMemory /\ TenantMemory * j \in Int
  BY <1>6, ConstantTypes
<1>11. Held(FirstBudgets(t, k)) \in Nat /\ Held(FirstBudgets(t, j)) \in Nat
  BY HeldType
<1>12. QED
  BY <1>4, <1>8, <1>9, <1>10, <1>11, ConstantTypes

\* A tenant's responses hold at most one budget until the auth file is reloaded,
\* and at most one more for every reload, for any number of streams and reloads:
\* the exact statement behind the bound of PHASE_COMPLETION_REPORT.md.
THEOREM TenantGrowsByReloads == Spec => []TenantBoundedPerReload
<1>1. Init => BudgetsNotNewer
  BY DEF Init, BudgetsNotNewer
<1>2. TypeOK /\ BudgetsNotNewer /\ [Next]_vars => BudgetsNotNewer'
  BY BudgetsStep
<1>3. TypeOK /\ Accounts /\ BudgetsNotNewer => TenantBoundedPerReload
  <2> SUFFICES ASSUME TypeOK, Accounts, BudgetsNotNewer, NEW t \in Tenants
               PROVE  Held(TenantBytes(t)) <= TenantMemory * (epoch + 1)
    BY DEF TenantBoundedPerReload
  <2>1. epoch \in 0 .. MaxReloads /\ epoch + 1 \in 0 .. MaxReloads + 1
    BY ConstantTypes DEF TypeOK
  <2>2. ASSUME NEW q \in Slots PROVE budget[q[1]][2] < epoch + 1
    <3>1. q[1] \in Streams /\ budget[q[1]] \in Semaphores
      BY DEF TypeOK, Slots
    <3>2. budget[q[1]][2] \in Int /\ budget[q[1]][2] <= epoch
      BY <3>1 DEF Semaphores, BudgetsNotNewer
    <3>3. QED
      BY <2>1, <3>2
  <2>3. TenantBytes(t) = FirstBudgets(t, epoch + 1)
    BY <2>2, Zenon DEF TenantBytes, FirstBudgets
  <2>4. QED
    BY <2>1, <2>3, BudgetsAddUp DEF Accounts
<1>4. QED
  BY <1>1, <1>2, <1>3, AccountsInvariant, PTL DEF Spec

\* Before the first reload the documented bound holds.
THEOREM TenantBoundedUntilReload == Spec => [](epoch = 0 => TenantBytesBounded)
<1>1. TenantBoundedPerReload => (epoch = 0 => TenantBytesBounded)
  <2>1. TenantMemory * (0 + 1) = TenantMemory
    BY ConstantTypes
  <2>2. QED
    BY <2>1 DEF TenantBoundedPerReload, TenantBytesBounded
<1>2. QED
  BY <1>1, TenantGrowsByReloads, PTL

-----------------------------------------------------------------------------
(***************************************************************************)
(* The refinement of Ledger; conservation bounds what is out.              *)
(***************************************************************************)

Ledgers ==
  /\ [Memory!Next]_GlobalHeld
  /\ \A m \in Semaphores : [Tenant(m)!Next]_(TenantHeld(m))

\* Segment i of s keeps its permits, takes all of them or returns all of them.
Swaps(s, i, states) ==
  \/ BytesIn(s, i, states)' = BytesIn(s, i, states)
  \/ BytesIn(s, i, states) = 0
  \/ BytesIn(s, i, states)' = 0

\* What the accounts say of the permits out after the step.
LEMMA WithinCapacity ==
  ASSUME TypeOK', Accounts'
  PROVE  /\ Held(GlobalHeld)' <= GlobalMemory
         /\ \A m \in Semaphores : Held(TenantHeld(m))' <= TenantMemory
<1>1. Held(GlobalHeld)' \in Nat /\ globalFree' \in Int /\ GlobalMemory \in Nat
  BY HeldType, ConstantTypes DEF TypeOK
<1>2. ASSUME NEW m \in Semaphores
      PROVE  Held(TenantHeld(m))' \in Nat /\ tenantFree'[m] \in Int /\ TenantMemory \in Nat
  BY HeldType, ConstantTypes DEF TypeOK
<1>3. globalFree' >= 0 /\ globalFree' + Held(GlobalHeld)' = GlobalMemory
  BY DEF Accounts, GlobalPermitsConserved
<1>4. ASSUME NEW m \in Semaphores
      PROVE  tenantFree'[m] >= 0 /\ tenantFree'[m] + Held(TenantHeld(m))' = TenantMemory
  BY DEF Accounts, TenantPermitsConserved, Semaphores
<1>5. QED
  BY <1>1, <1>2, <1>3, <1>4

\* One slot of global_memory moves.
LEMMA MemoryMoves ==
  ASSUME TypeOK, TypeOK', Accounts', NEW p \in Slots,
         \A q \in Slots : q # p => GlobalHeld'[q] = GlobalHeld[q],
         GlobalHeld'[p] = GlobalHeld[p] \/ GlobalHeld[p] = 0 \/ GlobalHeld'[p] = 0
  PROVE  [Memory!Next]_GlobalHeld
<1>1. GlobalHeld \in Holdings /\ GlobalHeld' \in Holdings
  BY SlotTypes, SlotTypesNext DEF SlotsTyped, Holdings, Slots, MaxHeld
<1> DEFINE n == GlobalHeld'[p]
<1>2. GlobalHeld' = [GlobalHeld EXCEPT ![p] = n] /\ n \in 0 .. MaxHeld
  BY <1>1 DEF Holdings
<1>3. Memory!Total(GlobalHeld') <= GlobalMemory
  BY WithinCapacity DEF Memory!Total, Memory!Cardinality, Cardinality, Held, HeldBytes
<1>4. CASE n = GlobalHeld[p]
  BY <1>1, <1>2, <1>4 DEF Holdings
<1>5. CASE n # GlobalHeld[p] /\ GlobalHeld[p] = 0
  <2>1. n \in 1 .. MaxHeld
    BY <1>2, <1>5, ConstantTypes
  <2>2. Memory!Acquire(p, n) /\ Memory!Moves(p)
    BY <1>2, <1>3, <1>5 DEF Memory!Acquire, Memory!Moves
  <2>3. QED
    BY <2>1, <2>2 DEF Memory!Next
<1>6. CASE n # GlobalHeld[p] /\ n = 0
  <2>1. Memory!Release(p) /\ Memory!Moves(p)
    BY <1>2, <1>6 DEF Memory!Release, Memory!Moves
  <2>2. QED
    BY <2>1 DEF Memory!Next
<1>7. QED
  BY <1>4, <1>5, <1>6

\* One slot of a tenant semaphore moves.
LEMMA TenantMoves ==
  ASSUME TypeOK, TypeOK', Accounts', NEW m \in Semaphores, NEW p \in Slots,
         \A q \in Slots : q # p => TenantHeld(m)'[q] = TenantHeld(m)[q],
         \/ TenantHeld(m)'[p] = TenantHeld(m)[p]
         \/ TenantHeld(m)[p] = 0
         \/ TenantHeld(m)'[p] = 0
  PROVE  [Tenant(m)!Next]_(TenantHeld(m))
<1>1. TenantHeld(m) \in Holdings /\ TenantHeld(m)' \in Holdings
  BY SlotTypes, SlotTypesNext DEF SlotsTyped, Holdings, Slots, MaxHeld, Semaphores
<1> DEFINE n == TenantHeld(m)'[p]
<1>2. TenantHeld(m)' = [TenantHeld(m) EXCEPT ![p] = n] /\ n \in 0 .. MaxHeld
  BY <1>1 DEF Holdings
<1>3. Tenant(m)!Total(TenantHeld(m)') <= TenantMemory
  BY WithinCapacity, ZenonT(40) DEF Tenant!Total, Tenant!Cardinality, Cardinality, Held, HeldBytes
<1>4. CASE n = TenantHeld(m)[p]
  BY <1>1, <1>2, <1>4 DEF Holdings
<1>5. CASE n # TenantHeld(m)[p] /\ TenantHeld(m)[p] = 0
  <2>1. n \in 1 .. MaxHeld
    BY <1>2, <1>5, ConstantTypes
  <2>2. Tenant(m)!Acquire(p, n) /\ Tenant(m)!Moves(p)
    BY <1>2, <1>3, <1>5 DEF Tenant!Acquire, Tenant!Moves
  <2>3. QED
    BY <2>1, <2>2 DEF Tenant!Next
<1>6. CASE n # TenantHeld(m)[p] /\ n = 0
  <2>1. Tenant(m)!Release(p) /\ Tenant(m)!Moves(p)
    BY <1>2, <1>6 DEF Tenant!Release, Tenant!Moves
  <2>2. QED
    BY <2>1 DEF Tenant!Next
<1>7. QED
  BY <1>4, <1>5, <1>6

\* Steps that move nothing change no ledger.
LEMMA QuietLedgers ==
  ASSUME SameChunks, SameSegments, budget' = budget
  PROVE  Ledgers
<1>1. GlobalHeld' = GlobalHeld
  BY GlobalQuiet
<1>2. ASSUME NEW m \in Semaphores PROVE TenantHeld(m)' = TenantHeld(m)
  BY DEF SameSegments, TenantHeld, SegmentBytes, Slots, HoldsLocal, SegmentStates
<1>3. QED
  BY <1>1, <1>2 DEF Ledgers

\* A slice whose size stays, or is gone, swaps whatever its states are.
LEMMA SizeSwaps ==
  ASSUME NEW s \in Streams, NEW i \in Segments,
         size'[s][i] = size[s][i] \/ size'[s][i] = 0
  PROVE  Swaps(s, i, HoldsGlobal) /\ Swaps(s, i, HoldsLocal)
  BY Zenon DEF Swaps, BytesIn

\* Steps that move one segment move its slot.
LEMMA SegmentLedgers ==
  ASSUME TypeOK, TypeOK', Accounts', NEW s \in Streams, NEW i \in Segments,
         SameChunks, OnlySegment(s, i), budget' = budget,
         Swaps(s, i, HoldsGlobal), Swaps(s, i, HoldsLocal)
  PROVE  Ledgers
<1> DEFINE p == <<s, i>>
<1>1. p \in Slots /\ p[1] = s /\ p[2] = i /\ i # 0
  BY ConstantTypes DEF Slots, Segments
<1>2. ASSUME NEW q \in Slots, q # p
      PROVE  /\ GlobalHeld'[q] = GlobalHeld[q]
             /\ \A m \in Semaphores : TenantHeld(m)'[q] = TenantHeld(m)[q]
  <2>1. /\ SegmentBytes(q, HoldsGlobal)' = SegmentBytes(q, HoldsGlobal)
        /\ SegmentBytes(q, HoldsLocal)' = SegmentBytes(q, HoldsLocal)
    BY <1>2, OtherSlots DEF HoldsGlobal, HoldsLocal, SegmentStates
  <2>2. ChunkBytes(q)' = ChunkBytes(q)
    BY <1>2 DEF SameChunks, ChunkBytes, Slots, HoldsMemoryChunk
  <2>3. QED
    BY <1>2, <2>1, <2>2 DEF GlobalHeld, TenantHeld
<1>3. /\ GlobalHeld[p] = BytesIn(s, i, HoldsGlobal)
      /\ GlobalHeld'[p] = BytesIn(s, i, HoldsGlobal)'
  BY <1>1 DEF GlobalHeld, SegmentBytes, BytesIn
<1>4. ASSUME NEW m \in Semaphores
      PROVE  /\ TenantHeld(m)[p] = IF budget[s] = m THEN BytesIn(s, i, HoldsLocal) ELSE 0
             /\ TenantHeld(m)'[p] = IF budget[s] = m THEN BytesIn(s, i, HoldsLocal)' ELSE 0
  BY <1>1 DEF TenantHeld, SegmentBytes, BytesIn
<1> HIDE DEF p
<1>5. [Memory!Next]_GlobalHeld
  BY <1>1, <1>2, <1>3, MemoryMoves DEF Swaps
<1>6. ASSUME NEW m \in Semaphores PROVE [Tenant(m)!Next]_(TenantHeld(m))
  BY <1>1, <1>2, <1>4, TenantMoves DEF Swaps
<1>7. QED
  BY <1>5, <1>6 DEF Ledgers

\* Steps that take or return a chunk move its slot.
LEMMA ChunkLedgers ==
  ASSUME TypeOK, TypeOK', Accounts', NEW s \in Streams,
         SameSegments, OnlyPhase(s), budget' = budget
  PROVE  Ledgers
<1> DEFINE p == <<s, 0>>
<1>1. p \in Slots /\ p[1] = s /\ p[2] = 0
  BY ConstantTypes DEF Slots
<1>2. ASSUME NEW q \in Slots, q # p PROVE GlobalHeld'[q] = GlobalHeld[q]
  <2>1. SegmentBytes(q, HoldsGlobal)' = SegmentBytes(q, HoldsGlobal)
    BY DEF SameSegments, SegmentBytes, HoldsGlobal
  <2>2. q[2] = 0 => ChunkBytes(q)' = ChunkBytes(q)
    BY <1>2 DEF OnlyPhase, ChunkBytes, Slots, HoldsMemoryChunk
  <2>3. QED
    BY <1>2, <2>1, <2>2 DEF GlobalHeld
<1>3. /\ GlobalHeld[p] \in {0, GlobalMemoryChunk}
      /\ GlobalHeld'[p] \in {0, GlobalMemoryChunk}
  BY <1>1 DEF GlobalHeld, ChunkBytes
<1>4. ASSUME NEW m \in Semaphores PROVE TenantHeld(m)' = TenantHeld(m)
  BY DEF SameSegments, TenantHeld, SegmentBytes, Slots, HoldsLocal, SegmentStates
<1> HIDE DEF p
<1>5. [Memory!Next]_GlobalHeld
  BY <1>1, <1>2, <1>3, MemoryMoves
<1>6. QED
  BY <1>4, <1>5 DEF Ledgers

\* Every step is a step of each ledger, or leaves it alone.
LEMMA LedgersStep ==
  ASSUME TypeOK, TypeOK', TaskConsistent, Accounts, Accounts', [Next]_vars
  PROVE  Ledgers
<1> USE ConstantTypes DEF Goto, segmentVars, admissionVars
<1>0. /\ phase \in [Streams -> Phases] /\ rest \in [Streams -> Int]
      /\ seg \in [Streams -> [Segments -> SegmentStates]]
      /\ size \in [Streams -> [Segments -> 0 .. OutputByteBudget]]
      /\ cur \in [Streams -> 0 .. MaxSegments]
      /\ budget \in [Streams -> Semaphores]
      /\ \A r \in Streams : TaskOK(r)
  BY DEF TypeOK, TaskConsistent
<1>1. ASSUME NEW s \in Streams, Arrive(s)
      PROVE  Ledgers
  BY <1>0, <1>1, QuietLedgers
  DEF Arrive, SameChunks, SameSegments, HoldsMemoryChunk
<1>2. ASSUME NEW s \in Streams, StreamPermit(s)
      PROVE  Ledgers
  BY <1>0, <1>2, QuietLedgers
  DEF StreamPermit, SameChunks, SameSegments, HoldsMemoryChunk
<1>3. ASSUME NEW s \in Streams, MemoryPermit(s)
      PROVE  Ledgers
  <2>1. SameSegments /\ OnlyPhase(s) /\ budget' = budget
    BY <1>0, <1>3 DEF MemoryPermit, SameSegments, OnlyPhase
  <2>2. QED
    BY <2>1, ChunkLedgers
<1>4. ASSUME NEW s \in Streams, MemoryTimeout(s)
      PROVE  Ledgers
  BY <1>0, <1>4, QuietLedgers
  DEF MemoryTimeout, SameChunks, SameSegments, HoldsMemoryChunk
<1>5. ASSUME NEW s \in Streams, HandlerDropped(s)
      PROVE  Ledgers
  BY <1>0, <1>5, QuietLedgers
  DEF HandlerDropped, SameChunks, SameSegments, HoldsMemoryChunk
<1>6. ASSUME NEW s \in Streams, UpstreamFailed(s)
      PROVE  Ledgers
  BY <1>0, <1>6, QuietLedgers
  DEF UpstreamFailed, SameChunks, SameSegments, HoldsMemoryChunk
<1>7. ASSUME NEW s \in Streams, NEW t \in Tenants, NEW isSse \in BOOLEAN, UpstreamAnswers(s, t, isSse)
      PROVE  Ledgers
  <2>1. \A i \in Segments : seg[s][i] = "none"
    BY <1>0, <1>7 DEF UpstreamAnswers, TaskOK, BeforeTask
  <2>2. SameSegments /\ SameChunks
    BY <1>0, <1>7 DEF UpstreamAnswers, SameSegments, SameChunks, HoldsMemoryChunk
  <2>3. \A r \in Streams : r # s => budget'[r] = budget[r]
    BY <1>0, <1>7 DEF UpstreamAnswers
  <2>4. ASSUME NEW m \in Semaphores PROVE TenantHeld(m)' = TenantHeld(m)
    <3>1. ASSUME NEW p \in Slots
          PROVE  /\ SegmentBytes(p, HoldsLocal)' = SegmentBytes(p, HoldsLocal)
                 /\ p[1] = s => SegmentBytes(p, HoldsLocal) = 0
                 /\ p[1] # s => budget'[p[1]] = budget[p[1]]
      <4>1. p[1] \in Streams /\ (p[2] # 0 => p[2] \in Segments)
        BY DEF Slots, Segments
      <4>2. SegmentBytes(p, HoldsLocal)' = SegmentBytes(p, HoldsLocal)
        BY <2>2, <4>1 DEF SameSegments, SegmentBytes, HoldsLocal, SegmentStates
      <4>3. ASSUME p[1] = s PROVE SegmentBytes(p, HoldsLocal) = 0
        BY <2>1, <4>1, <4>3 DEF SegmentBytes, HoldsLocal
      <4>4. QED
        BY <2>3, <4>1, <4>2, <4>3
    <3>2. QED
      BY <3>1 DEF TenantHeld
  <2>5. GlobalHeld' = GlobalHeld
    BY <2>2, GlobalQuiet
  <2>6. QED
    BY <2>4, <2>5 DEF Ledgers
<1>8. ASSUME NEW s \in Streams, NEW n \in 1 .. MaxOutput, Enqueue(s, n)
      PROVE  Ledgers
  BY <1>0, <1>8, QuietLedgers
  DEF Enqueue, SameChunks, SameSegments, HoldsMemoryChunk
<1>9. ASSUME NEW s \in Streams, TenantPermit(s)
      PROVE  Ledgers
  <2>1. PICK i \in Segments : i = cur[s] + 1
    BY <1>0, <1>9 DEF TenantPermit, ReadyToReserve, Segments
  <2>2. seg[s][i] = "none"
    BY <1>0, <1>9, <2>1 DEF TenantPermit, ReadyToReserve, Slice, Segments, TaskOK
  <2>3. SameChunks
    BY <1>9 DEF TenantPermit, SameChunks
  <2>4. OnlySegment(s, i) /\ budget' = budget
    BY <1>0, <1>9, <2>1 DEF TenantPermit, OnlySegment
  <2>5. Swaps(s, i, HoldsGlobal) /\ Swaps(s, i, HoldsLocal)
    <3>1. BytesIn(s, i, HoldsGlobal) = 0 /\ BytesIn(s, i, HoldsLocal) = 0
      BY <2>2 DEF BytesIn, HoldsGlobal, HoldsLocal, SegmentStates
    <3>2. QED
      BY <3>1 DEF Swaps
  <2>6. QED
    BY <2>3, <2>4, <2>5, SegmentLedgers
<1>10. ASSUME NEW s \in Streams, TenantLimitExceeded(s)
      PROVE  Ledgers
  <2>1. SameChunks
    BY <1>10, EnqueueFailedKeepsChunk, ZenonT(40) DEF TenantLimitExceeded, ReadyToReserve
  <2>2. SameSegments /\ budget' = budget
    BY <1>10, Zenon DEF TenantLimitExceeded, SameSegments
  <2>3. QED
    BY <2>1, <2>2, QuietLedgers, Zenon
<1>11. ASSUME NEW s \in Streams, NEW i \in Segments, GlobalPermit(s, i)
      PROVE  Ledgers
  <2>1. SameChunks
    BY <1>11 DEF GlobalPermit, SameChunks
  <2>2. OnlySegment(s, i) /\ budget' = budget
    BY <1>0, <1>11 DEF GlobalPermit, OnlySegment
  <2>3. Swaps(s, i, HoldsGlobal) /\ Swaps(s, i, HoldsLocal)
    BY <1>11, SizeSwaps, ZenonT(40) DEF GlobalPermit
  <2>4. QED
    BY <2>1, <2>2, <2>3, SegmentLedgers, ZenonT(40)
<1>12. ASSUME NEW s \in Streams, NEW i \in Segments, GlobalLimitExceeded(s, i)
      PROVE  Ledgers
  <2>1. SameChunks
    <3>1. rest[s] > 0
      BY <1>0, <1>12 DEF GlobalLimitExceeded, TaskOK, Reserving
    <3>2. QED
      BY <1>12, <3>1, EnqueueFailedKeepsChunk DEF GlobalLimitExceeded
  <2>2. OnlySegment(s, i) /\ budget' = budget
    BY <1>0, <1>12 DEF GlobalLimitExceeded, OnlySegment
  <2>3. Swaps(s, i, HoldsGlobal) /\ Swaps(s, i, HoldsLocal)
    <3>1. size'[s][i] = 0
      BY <1>0, <1>12, ZenonT(20) DEF GlobalLimitExceeded
    <3>2. QED
      BY <3>1, SizeSwaps, Zenon
  <2>4. QED
    BY <2>1, <2>2, <2>3, SegmentLedgers, Zenon
<1>13. ASSUME NEW s \in Streams, NEW i \in Segments, RecordInUse(s, i)
      PROVE  Ledgers
  <2>1. SameChunks
    BY <1>13 DEF RecordInUse, SameChunks
  <2>2. OnlySegment(s, i) /\ budget' = budget
    BY <1>0, <1>13 DEF RecordInUse, OnlySegment
  <2>3. Swaps(s, i, HoldsGlobal) /\ Swaps(s, i, HoldsLocal)
    BY <1>13, SizeSwaps, ZenonT(40) DEF RecordInUse
  <2>4. QED
    BY <2>1, <2>2, <2>3, SegmentLedgers, Zenon
<1>14. ASSUME NEW s \in Streams, NEW i \in Segments, Send(s, i)
      PROVE  Ledgers
  <2>1. SameChunks
    BY <1>14 DEF Send, SameChunks
  <2>2. OnlySegment(s, i) /\ budget' = budget
    BY <1>0, <1>14 DEF Send, OnlySegment
  <2>3. Swaps(s, i, HoldsGlobal) /\ Swaps(s, i, HoldsLocal)
    BY <1>14, SizeSwaps, ZenonT(40) DEF Send
  <2>4. QED
    BY <2>1, <2>2, <2>3, SegmentLedgers, Zenon
<1>15. ASSUME NEW s \in Streams, NEW i \in Segments, EnqueueTimeout(s, i)
      PROVE  Ledgers
  <2>1. SameChunks
    <3>1. rest[s] > 0
      BY <1>0, <1>15 DEF EnqueueTimeout, TaskOK, Reserving
    <3>2. QED
      BY <1>15, <3>1, EnqueueFailedKeepsChunk DEF EnqueueTimeout
  <2>2. OnlySegment(s, i) /\ budget' = budget
    BY <1>0, <1>15 DEF EnqueueTimeout, OnlySegment
  <2>3. Swaps(s, i, HoldsGlobal) /\ Swaps(s, i, HoldsLocal)
    BY <1>15, SizeSwaps, ZenonT(40) DEF EnqueueTimeout
  <2>4. QED
    BY <2>1, <2>2, <2>3, SegmentLedgers, Zenon
<1>16. ASSUME NEW s \in Streams, NEW i \in Segments, SendClosed(s, i)
      PROVE  Ledgers
  <2>1. SameChunks
    <3>1. rest[s] > 0
      BY <1>0, <1>16 DEF SendClosed, TaskOK, Reserving
    <3>2. QED
      BY <1>16, <3>1, EnqueueFailedKeepsChunk DEF SendClosed
  <2>2. OnlySegment(s, i) /\ budget' = budget
    BY <1>0, <1>16 DEF SendClosed, OnlySegment
  <2>3. Swaps(s, i, HoldsGlobal) /\ Swaps(s, i, HoldsLocal)
    BY <1>16, SizeSwaps, ZenonT(40) DEF SendClosed
  <2>4. QED
    BY <2>1, <2>2, <2>3, SegmentLedgers, Zenon
<1>17. ASSUME NEW s \in Streams, StreamEnds(s)
      PROVE  Ledgers
  BY <1>0, <1>17, QuietLedgers
  DEF StreamEnds, SameChunks, SameSegments, HoldsMemoryChunk
<1>18. ASSUME NEW s \in Streams, StreamError(s)
      PROVE  Ledgers
  BY <1>0, <1>18, QuietLedgers
  DEF StreamError, SameChunks, SameSegments, HoldsMemoryChunk
<1>19. ASSUME NEW s \in Streams, TaskReturns(s)
      PROVE  Ledgers
  BY <1>0, <1>19, QuietLedgers
  DEF TaskReturns, SameChunks, SameSegments, HoldsMemoryChunk
<1>20. ASSUME NEW s \in Streams, UnwindMemory(s)
      PROVE  Ledgers
  <2>1. SameSegments /\ OnlyPhase(s) /\ budget' = budget
    BY <1>0, <1>20 DEF UnwindMemory, SameSegments, OnlyPhase
  <2>2. QED
    BY <2>1, ChunkLedgers
<1>21. ASSUME NEW s \in Streams, UnwindStream(s)
      PROVE  Ledgers
  BY <1>0, <1>21, QuietLedgers
  DEF UnwindStream, SameChunks, SameSegments, HoldsMemoryChunk
<1>22. ASSUME NEW s \in Streams, UnwindGuard(s)
      PROVE  Ledgers
  BY <1>0, <1>22, QuietLedgers
  DEF UnwindGuard, SameChunks, SameSegments, HoldsMemoryChunk
<1>23. ASSUME NEW s \in Streams, PollFrame(s)
      PROVE  Ledgers
  BY <1>0, <1>23, QuietLedgers
  DEF PollFrame, SameChunks, SameSegments, HoldsMemoryChunk
<1>24. ASSUME NEW s \in Streams, NEW i \in Segments, ReceiveFrame(s, i)
      PROVE  Ledgers
  <2>1. SameChunks
    BY <1>24 DEF ReceiveFrame, SameChunks
  <2>2. OnlySegment(s, i) /\ budget' = budget
    BY <1>0, <1>24 DEF ReceiveFrame, OnlySegment
  <2>3. Swaps(s, i, HoldsGlobal) /\ Swaps(s, i, HoldsLocal)
    BY <1>24, SizeSwaps, ZenonT(40) DEF ReceiveFrame
  <2>4. QED
    BY <2>1, <2>2, <2>3, SegmentLedgers, Zenon
<1>25. ASSUME NEW s \in Streams, ReceiveNothing(s)
      PROVE  Ledgers
  BY <1>0, <1>25, QuietLedgers
  DEF ReceiveNothing, SameChunks, SameSegments, HoldsMemoryChunk
<1>26. ASSUME NEW s \in Streams, BodyDropped(s)
      PROVE  Ledgers
  BY <1>0, <1>26, QuietLedgers
  DEF BodyDropped, SameChunks, SameSegments, HoldsMemoryChunk
<1>27. ASSUME NEW s \in Streams, NEW i \in Segments, DropCounter(s, i)
      PROVE  Ledgers
  <2>1. SameChunks
    BY <1>27 DEF DropCounter, SameChunks
  <2>2. OnlySegment(s, i) /\ budget' = budget
    BY <1>0, <1>27 DEF DropCounter, OnlySegment
  <2>3. Swaps(s, i, HoldsGlobal) /\ Swaps(s, i, HoldsLocal)
    BY <1>27, SizeSwaps, ZenonT(40) DEF DropCounter
  <2>4. QED
    BY <2>1, <2>2, <2>3, SegmentLedgers, Zenon
<1>28. ASSUME NEW s \in Streams, NEW i \in Segments, DropGlobalPermit(s, i)
      PROVE  Ledgers
  <2>1. SameChunks
    BY <1>28 DEF DropGlobalPermit, SameChunks
  <2>2. OnlySegment(s, i) /\ budget' = budget
    BY <1>0, <1>28 DEF DropGlobalPermit, OnlySegment
  <2>3. Swaps(s, i, HoldsGlobal) /\ Swaps(s, i, HoldsLocal)
    BY <1>28, SizeSwaps, ZenonT(40) DEF DropGlobalPermit
  <2>4. QED
    BY <2>1, <2>2, <2>3, SegmentLedgers, Zenon
<1>29. ASSUME NEW s \in Streams, NEW i \in Segments, DropLocalPermit(s, i)
      PROVE  Ledgers
  <2>1. SameChunks
    BY <1>29 DEF DropLocalPermit, SameChunks
  <2>2. OnlySegment(s, i) /\ budget' = budget
    BY <1>0, <1>29 DEF DropLocalPermit, OnlySegment
  <2>3. Swaps(s, i, HoldsGlobal) /\ Swaps(s, i, HoldsLocal)
    <3>1. size'[s][i] = 0
      BY <1>0, <1>29, ZenonT(20) DEF DropLocalPermit
    <3>2. QED
      BY <3>1, SizeSwaps, Zenon
  <2>4. QED
    BY <2>1, <2>2, <2>3, SegmentLedgers, Zenon
<1>30. ASSUME NEW s \in Streams, Recycle(s)
      PROVE  Ledgers
  BY <1>0, <1>30, QuietLedgers
  DEF Recycle, SameChunks, SameSegments, HoldsMemoryChunk
<1>31. CASE ReloadKeyring
  BY <1>31, QuietLedgers DEF ReloadKeyring, SameChunks, SameSegments
<1>32. CASE UNCHANGED vars
  BY <1>32, QuietLedgers DEF vars, SameChunks, SameSegments
<1>33. QED
  BY <1>1, <1>2, <1>3, <1>4, <1>5, <1>6, <1>7, <1>8, <1>9, <1>10,
     <1>11, <1>12, <1>13, <1>14, <1>15, <1>16, <1>17, <1>18, <1>19, <1>20,
     <1>21, <1>22, <1>23, <1>24, <1>25, <1>26, <1>27, <1>28, <1>29, <1>30,
     <1>31, <1>32
  DEF Next, StreamStep, Handler, ReserveAndSend, Unwind, Receive, DropSegment

\* At the start every pool is whole.
LEMMA InitLedgers == Init => Memory!Init /\ \A m \in Semaphores : Tenant(m)!Init
<1> SUFFICES ASSUME Init PROVE Memory!Init /\ \A m \in Semaphores : Tenant(m)!Init
  OBVIOUS
<1>1. ASSUME NEW p \in Slots
      PROVE  /\ ChunkBytes(p) = 0
             /\ SegmentBytes(p, HoldsGlobal) = 0
             /\ SegmentBytes(p, HoldsLocal) = 0
  BY DEF Init, ChunkBytes, SegmentBytes, Slots, HoldsMemoryChunk, HoldsGlobal, HoldsLocal,
         SegmentStates, Segments
<1>2. QED
  BY <1>1 DEF GlobalHeld, TenantHeld, Memory!Init, Tenant!Init

\* global_memory and every tenant semaphore are ledgers for any number of
\* streams, any sizes and any reloads: no owner is served twice, returns a part,
\* or returns what it never had.
THEOREM PoolsRefineLedger == Spec => PoolsAreLedgers
<1> DEFINE TenantInit == \A m \in Semaphores : Tenant(m)!Init
           TenantNext == \A m \in Semaphores : [Tenant(m)!Next]_(TenantHeld(m))
<1>1. Init => Memory!Init /\ TenantInit
  BY InitLedgers
<1>2. (/\ TypeOK /\ TaskConsistent /\ Accounts
       /\ (TypeOK /\ TaskConsistent /\ Accounts)'
       /\ [Next]_vars) => [Memory!Next]_GlobalHeld /\ TenantNext
  BY LedgersStep DEF Ledgers
<1>3. PoolsAreLedgers <=> Memory!Spec /\ TenantInit /\ [][TenantNext]_vars
  BY DEF PoolsAreLedgers
<1> HIDE DEF TenantInit, TenantNext
<1>4. QED
  BY <1>1, <1>2, <1>3, AccountsInvariant, PTL DEF Spec, Memory!Spec
=============================================================================
