-------------------------- MODULE HotReloadProofs ---------------------------
(***************************************************************************)
(* Proofs of the safety properties of HotReload, for any number of tokens,  *)
(* patterns, requests, updates and changes of the files.                    *)
(***************************************************************************)
EXTENDS HotReload, TLAPS

\* The provers a step is given to in turn, with their time limits in seconds.
USE SMTT(20), SMTT(30), ZenonT(20), SMTT(40), SMTT(50), SMTT(60)

\* What TypeOK leaves open: two functions, and fewer notifications than changes.
Shapes ==
  /\ file = [w \in Watchers |-> file[w]]
  /\ contents = [w \in Watchers |-> contents[w]]
  /\ \A w \in Watchers : events[w] <= writes[w]

\* A request has no engine before the upstream has answered, and names one from
\* the start of its handler; a stream has one.
RequestOK(r) ==
  /\ req[r] \in {"new", "authenticated", "begun"} => used[r] = 0 /\ applied[r] = {}
  /\ req[r] = "begun" => digest[r] # 0
  /\ req[r] = "streaming" => used[r] # 0

\* The token of a request in its handler was valid once.
TokenOK(r) == req[r] \in {"authenticated", "begun"} => token[r] \in everValid

\* A keyring on its way into force is not empty.
StoringOK == thread["auth"] = "storing" => contents["auth"] # {}

\* The inductive invariant.
ReloadInv ==
  /\ TypeOK /\ Shapes
  /\ \A r \in Requests : RequestOK(r) /\ TokenOK(r)
  /\ keyring \subseteq everValid /\ StoringOK
  /\ SnapshotIsolation /\ EngineNotOlderThanDigest /\ BudgetsOnlyForValidTokens

\* A change is counted, and its notification if somebody listens.
LEMMA Counting ==
  ASSUME NEW W, NEW count \in [W -> 0 .. MaxWrites], NEW sent \in [W -> 0 .. MaxWrites],
         \A v \in W : sent[v] <= count[v],
         NEW w \in W, count[w] < MaxWrites, NEW lost
  PROVE  LET more == [count EXCEPT ![w] = @ + 1]
             queue == [sent EXCEPT ![w] = IF lost THEN @ ELSE @ + 1]
         IN  /\ more \in [W -> 0 .. MaxWrites] /\ queue \in [W -> 0 .. MaxWrites]
             /\ \A v \in W : queue[v] <= more[v]
BY MaxWritesAssumption

USE MaxWritesAssumption, RetriesAssumption
USE DEF Watchers, Contents, Current, stored, others, fixed, watcherVars, requestVars,
        ReloadInv, TypeOK, Shapes, RequestOK, TokenOK, StoringOK, SnapshotIsolation,
        EngineNotOlderThanDigest, BudgetsOnlyForValidTokens

\* main has read both files, and nothing has happened yet.
LEMMA InitInv == Init => ReloadInv
BY DEF Init

-----------------------------------------------------------------------------
\* A change of a file, and the first steps of a watcher thread.
LEMMA WatcherInv ==
  ASSUME ReloadInv, NEW w \in Watchers
  PROVE  /\ \A c \in Contents(w) \union {Unreadable} : WriteFile(w, c) => ReloadInv'
         /\ WatcherStep(w) => ReloadInv'
<1>1. ASSUME NEW c \in Contents(w) \union {Unreadable}, WriteFile(w, c)
      PROVE  ReloadInv'
  <2>1. /\ writes' \in [Watchers -> 0 .. MaxWrites]
        /\ events' \in [Watchers -> 0 .. MaxWrites]
        /\ \A v \in Watchers : events'[v] <= writes'[v]
    <3>1. /\ writes' = [writes EXCEPT ![w] = @ + 1] /\ writes[w] < MaxWrites
          /\ events' = [events EXCEPT ![w] =
                          IF thread[w] \in {"starting", "dead"} THEN @ ELSE @ + 1]
      BY <1>1, Zenon DEF WriteFile
    <3>2. /\ writes \in [Watchers -> 0 .. MaxWrites] /\ events \in [Watchers -> 0 .. MaxWrites]
          /\ \A v \in Watchers : events[v] <= writes[v]
      OBVIOUS
    <3> HIDE DEF Watchers, Contents, ReloadInv
    <3>3. QED
      BY <3>1, <3>2, Counting
  <2>2. /\ \A v \in Watchers : file'[v] \in Contents(v) \union {Unreadable}
        /\ file' = [v \in Watchers |-> file'[v]]
    BY <1>1, Zenon DEF WriteFile
  <2>3. QED
    BY <1>1, <2>1, <2>2, Zenon DEF WriteFile
<1>2. CASE StartWatching(w)
  BY <1>2 DEF StartWatching
<1>3. CASE TakeEvent(w)
  <2>1. /\ events' \in [Watchers -> 0 .. MaxWrites]
        /\ \A v \in Watchers : events'[v] <= writes'[v]
    BY <1>3 DEF TakeEvent
  <2>2. /\ tries' \in [Watchers -> 0 .. (Retries - 1)]
        /\ thread' \in [Watchers -> {"starting", "waiting", "reading", "loaded",
                                     "storing", "dead"}]
        /\ StoringOK'
    BY <1>3 DEF TakeEvent
  <2>3. QED
    BY <1>3, <2>1, <2>2, Zenon DEF TakeEvent
<1>4. CASE ReadFails(w)
  <2>1. /\ tries' \in [Watchers -> 0 .. (Retries - 1)]
        /\ thread' \in [Watchers -> {"starting", "waiting", "reading", "loaded",
                                     "storing", "dead"}]
    BY <1>4 DEF ReadFails, GiveUp
  <2>2. StoringOK'
    BY <1>4 DEF ReadFails
  <2>3. QED
    BY <1>4, <2>1, <2>2, Zenon DEF ReadFails
<1>5. CASE ReadFile(w)
  BY <1>5, Zenon DEF ReadFile
<1>6. QED
  BY <1>1, <1>2, <1>3, <1>4, <1>5, Zenon DEF WatcherStep

\* The stores of the two watcher threads.
LEMMA StoresInv ==
  ASSUME ReloadInv
  PROVE  AuthStores \/ PiiStores => ReloadInv'
<1>1. CASE RefuseEmpty
  BY <1>1 DEF RefuseEmpty
<1>2. CASE ClearBudgets
  BY <1>2 DEF ClearBudgets, KeyringAccepted
<1>3. CASE StoreKeyring
  BY <1>3 DEF StoreKeyring
<1>4. CASE CompilePanics
  BY <1>4 DEF CompilePanics
<1>5. CASE StoreEngine
  BY <1>5 DEF StoreEngine
<1>6. CASE StoreVault
  BY <1>6 DEF StoreVault
<1>7. QED
  BY <1>1, <1>2, <1>3, <1>4, <1>5, <1>6, Zenon DEF AuthStores, PiiStores

\* An administrative update.
LEMMA UpdateInv ==
  ASSUME ReloadInv, NEW u \in Updates
  PROVE  /\ \A p \in SUBSET Patterns : PostRules(u, p) => ReloadInv'
         /\ UpdateFails(u) \/ StoreRules(u) => ReloadInv'
<1>1. ASSUME NEW p \in SUBSET Patterns, PostRules(u, p)
      PROVE  ReloadInv'
  BY <1>1 DEF PostRules
<1>2. CASE UpdateFails(u)
  BY <1>2, Zenon DEF UpdateFails
<1>3. CASE StoreRules(u)
  BY <1>3 DEF StoreRules
<1>4. QED
  BY <1>1, <1>2, <1>3, Zenon

\* A request, from its token to its chunks.
LEMMA RequestInv ==
  ASSUME ReloadInv, NEW r \in Requests
  PROVE  RequestStep(r) => ReloadInv'
<1>1. CASE RequireAuth(r)
  BY <1>1 DEF RequireAuth, Accepts
<1>2. CASE LoadDigest(r)
  BY <1>2 DEF LoadDigest
<1>3. CASE RequestEnds(r)
  BY <1>3 DEF RequestEnds
<1>4. CASE Answer(r)
  BY <1>4 DEF Answer, ActiveEngine
<1>5. CASE Chunk(r)
  <2>1. used[r] \in 1 .. Current
    BY <1>5 DEF Chunk
  <2>2. applied' \in [Requests -> SUBSET (1 .. Current')] /\ SnapshotIsolation'
    BY <1>5, <2>1 DEF Chunk, ChunkEngine
  <2>3. QED
    BY <1>5, <2>2, ZenonT(40) DEF Chunk
<1>6. QED
  BY <1>1, <1>2, <1>3, <1>4, <1>5, Zenon DEF RequestStep
-----------------------------------------------------------------------------
\* Every step preserves the invariant.
LEMMA StepInv == ReloadInv /\ [Next]_vars => ReloadInv'
<1>1. SUFFICES ASSUME ReloadInv, [Next]_vars
      PROVE  ReloadInv'
  BY Zenon
<1>2. CASE UNCHANGED vars
  BY <1>1, <1>2 DEF vars
<1>3. CASE Next
  BY <1>1, <1>3, WatcherInv, StoresInv, UpdateInv, RequestInv, Zenon DEF Next
<1>4. QED
  BY <1>1, <1>2, <1>3, Zenon

LEMMA InvAlways == Spec => []ReloadInv
<1>1. ReloadInv /\ [Next]_vars => ReloadInv'
  BY StepInv, Zenon
<1>2. QED
  BY InitInv, <1>1, PTL DEF Spec

\* Every variable of the reload keeps its type: a watcher reads no more often than
\* it has delays for, and no index points behind the engines stored so far.
THEOREM ReloadTypeCorrect == Spec => []TypeOK
<1>1. ReloadInv => TypeOK
  OBVIOUS
<1>2. QED
  BY InvAlways, <1>1, PTL

\* A stream is redacted under one rule set, however many updates and reloads run
\* beside it (the Arc that StreamRedactor::from_state keeps).
THEOREM StreamsIsolated == Spec => []SnapshotIsolation
<1>1. ReloadInv => SnapshotIsolation
  OBVIOUS
<1>2. QED
  BY InvAlways, <1>1, PTL

\* The rule set of a stream is never older than the one its receipt names, for
\* any number of stores between the two loads of proxy_with_upstream.
THEOREM DigestNotNewer == Spec => []EngineNotOlderThanDigest
<1>1. ReloadInv => EngineNotOlderThanDigest
  OBVIOUS
<1>2. QED
  BY InvAlways, <1>1, PTL

\* Only tenants whose token was valid at some time get an entry in the map of
\* budgets (require_auth in front of ByteBudget::with_tenant).
THEOREM BudgetsValid == Spec => []BudgetsOnlyForValidTokens
<1>1. ReloadInv => BudgetsOnlyForValidTokens
  OBVIOUS
<1>2. QED
  BY InvAlways, <1>1, PTL

\* No step replaces a keyring that accepts somebody by one that accepts nobody:
\* what watch_auth_file checks of the file is what it stores.
THEOREM KeyringKept == Spec => KeyringNeverEmptied
<1>1. ReloadInv /\ [Next]_vars => [keyring # {} => keyring' # {}]_vars
  <2>1. SUFFICES ASSUME ReloadInv, Next, keyring' # keyring
        PROVE  keyring' # {}
    BY DEF vars
  <2>2. StoreKeyring
    BY <2>1, Zenon DEF Next, WriteFile, WatcherStep, StartWatching, TakeEvent, ReadFails, ReadFile,
                AuthStores, RefuseEmpty, ClearBudgets, PiiStores, CompilePanics,
                StoreEngine, StoreVault, PostRules, UpdateFails, StoreRules, RequestStep,
                RequireAuth, LoadDigest, RequestEnds, Answer, Chunk
  <2>3. QED
    BY <2>1, <2>2 DEF StoreKeyring
<1>2. QED
  BY InvAlways, <1>1, PTL DEF Spec, KeyringNeverEmptied
=============================================================================
