# Verification of the PII redaction proxy

TLA+ models of the proxy in `src/`, model-checked with TLC, with safety theorems
proved by TLAPS. Line numbers refer to `src/src/*.rs`.

## The system

The proxy boots, unseals its secrets (in an enclave: through a tunnel and the relay on
the host), and serves. A request passes the layers of the router and waits for a stream
permit and a memory chunk. Its body is sent upstream, and the answer is streamed back:

    upstream chunks -> StreamRedactor -> DoneDetector -> enqueue -> BudgetedBody -> client
                       (engine.rs)       (lib.rs)        (budget_queue.rs)

Meanwhile two watcher threads reload the rules and the keyring. A signal drains the
server, a watchdog bounds the drain, and the runtime is dropped.

| Part | Source | Modules | Status |
|---|---|---|---|
| Byte budgets, bounded output queue, response body | budget_queue.rs | `BudgetQueue`, `Ledger`, `BudgetLedger` | modelled, proved |
| Admission, stream task, unwinding | lib.rs 500-974 | `BudgetQueue` (permits, timeouts), `StreamTask` (data), `HotReload` (engine) | modelled, proved |
| Router layers, body limit, admin authentication | lib.rs 203-498 | `StreamTask` | modelled, proved |
| DONE detector and audit receipt | lib.rs 976-1187 | `DoneDetector`, `StreamTask` | modelled, proved |
| Streaming redactor | engine.rs | `StreamRedactor` | modelled, proved |
| Keyring and rule reloads, `update_rules`, `require_auth` | main.rs 428-558, lib.rs 284-404 | `HotReload` | modelled, proved |
| Boot | main.rs 37-236, bootloader.rs, attestation.rs | `Boot` | modelled; attestation partly |
| Accept loop, TLS listener, drain, watchdog | main.rs 160-236, 560-583, tls.rs | `Serving` | modelled |
| VSOCK tunnels and host relay | vsock_bridge.rs, vsock_host_bridge.rs, bin/host_relay.rs | `Boot`, `HostRelay` | modelled |
| One life of the process | the four rows above | `Lifecycle` | modelled, proved |
| Pod entrypoint | deploy/pod_entrypoint.sh | `PodEntrypoint` | modelled |
| Receipt verifiers | scripts/verify_*.py | order and hash checks are properties of `StreamTask` | partly |

`PROJECT.json` maps every definition to the lines it models and lists the hazards of
the code with the properties that watch them. Definitions that begin with a comment
`Fault:` are deliberately wrong variants of the definition below them. They take part
in no specification; substituted for it, they violate the property they belong to.

## BudgetQueue

State. `phase[s]` is where the handler of stream slot `s`, then its task, stands.
`seg[s][i]` and `size[s][i]` are the segments its response is cut into, each with the
permits it holds at that point of its life. `globalFree`, `tenantFree`, `streamFree`
are the unacquired permits of the semaphores, with FIFO queues where the code waits.
`inUse` and `activeSse` are the two atomic counters. `budget[s]` names the tenant
semaphore the stream holds an `Arc` of. `epoch` counts how often the map of
semaphores was cleared.

Actions. Every atomic operation on shared state is one action: the waits of the
handler (`Arrive`, `StreamPermit`, `MemoryPermit`, `MemoryTimeout`), the end of the
upstream call (`UpstreamFailed`, `UpstreamAnswers`), `enqueue` (`Enqueue`,
`TenantPermit`, `GlobalPermit`, `RecordInUse`, `Send` and the refusals), the ways a task
ends, the drops in Rust's order (`UnwindMemory`, `UnwindStream`, `UnwindGuard`,
`DropCounter`, `DropGlobalPermit`, `DropLocalPermit`), the body (`PollFrame`,
`ReceiveFrame`, `ReceiveNothing`, `BodyDropped`), a dropped handler, a keyring reload.
`Recycle`, which stands for the next request, reuses the slot of a finished response, so behaviours are unbounded.
Payloads are lengths.

`tokio::sync::Semaphore` and `mpsc` are external. They are modelled by their documented
behaviour: FIFO waiters, `try_acquire` fails while somebody waits, bounded channel,
`send` returns the message once the receiver is gone.

Refinement. `Ledger` is what a pool of permits promises: an owner acquires once,
returns all of it once, one owner moves at a time, and the permits out fit the capacity.
`BudgetLedger` instantiates it for `global_memory` and for every tenant semaphore, with a
mapping that looks only at who owns what, never at the counters of free permits
(`PoolsAreLedgers`). The run that checks it has no reload; that a tenant's semaphore is
still a ledger after a reload has removed it from the map is in the theorem.

| Run | Properties | Bounds |
|---|---|---|
| `budget_accounting` | `TypeOK`, `GlobalPermitsConserved`, `InUseExact`, `StreamPermitsConserved`, `ActiveSseExact`, `WaitersExact`, `TaskConsistent`, `TenantPermitsConserved`, `TenantBoundedPerReload`, `NoDataAfterGap` | 2 streams, 2 bytes of global and 1 of tenant memory, segments of one byte, up to 3 per response, channel of 1, one reload |
| `budget_liveness` | `GlobalPermitsConserved`, `RequestsComplete`, `PoolsAreLedgers` | 2 streams, 1 stream permit, 2 bytes of tenant memory, 2 segments per response, no reload |

The bounds make every refusal happen: two chunks, a chunk and a segment, or the segments
two responses left behind exhaust the global memory, one segment the tenant's, one the channel; an output of two bytes is cut in
two, so that the second slice can fail after the first was sent. Two streams are
enough for one to take what the other waits for. With one byte of tenant memory no segment
waits for a place in the channel, so the 5 s timeout of `enqueue` cannot strike in
`budget_accounting`; it does in `budget_liveness`, where an error frame waits behind the
segment of a client that stopped reading, and the permits are counted there again. The proofs below lift the accounting
to any number of streams and any sizes. Streams are symmetric in the safety runs;
the liveness run uses no symmetry.

Fairness. Weak fairness of the handler, of the task's steps, of unwinding and dropping,
and of a poll that has begun. The runtime polls ready futures, and every wait but the
one for a stream permit has a timeout in the code (2 s chunk, 120 s upstream, 15 s idle,
5 s enqueue). Nothing is assumed of the client, which may stop reading for ever, nor of
the upstream beyond those timeouts: `StreamEnds \/ StreamError \/ TaskReturns` is fair as
a whole, because an idle stream ends after 15 s. That is an assumption about the
upstream as well: one that sends a chunk every 14 s for ever is not limited by the code
and is left out by this fairness.

## StreamTask and DoneDetector

`DoneDetector` is the detector alone: bytes are numbers, a digest is the sequence of
bytes hashed, `trailing` is what it holds back, `out` what it has returned, `receipts`
its receipts with their place. `Inspect` is one call of `inspect` with its five outcomes
(`Forward`, `MarkerInside`, `MarkerAcross`, `HoldNewTail`, `JoinTail`).

`StreamTask` extends it by the way of one request. `Verdict` is the first answer of the
layers of `make_router`, in their order: CORS, declared body limit, authentication.
`ReadBody` is the counted and hashed body stream, which goes on while the answer is read,
because an upstream may answer before it has the whole body. The queue of the client is
`wire`; `Refused` is an event it does not take, at any place within the events of one
step. `Eof`, `Shutdown`, `Finish`, `StreamError` and `ClientGone` are the ways out.

`stream_task` takes a request of every kind (route, method, origin, token, declared
length) through every cut of every response of up to six bytes over two letters, with a
marker of three bytes. Segments of four bytes are longer than the marker, so all branches
of `inspect` and two markers in one response occur. The body limit is one byte, with
pieces of up to two, so that a body stays below it, meets it and exceeds it, in one piece or
in several.

| Property | What it says |
|---|---|
| `PassThrough` | no byte is lost, repeated or reordered; the client has a prefix of the stream |
| `MarkerNeverMissed` | no cut hides the marker |
| `ProbeInBounds` | the index arithmetic across segments does not wrap |
| `OneReceipt` | at most one receipt, also when shutdown and marker meet |
| `ReceiptExactForShortSegments` | hash and place of the receipt are what the verifiers expect while segments are short |
| `LoggedOnlyWhole` | success is logged of whole responses only; without a receipt, with their digest |
| `OnlyAdmittedBytesSent` | nothing of a refused request, and never more than the limit, goes upstream |
| `RequestHashExactIfReadFirst` | `request_hash` is that of the whole body if the upstream reads it before it answers |

`long` remembers whether a segment was at least as long as what `inspect` holds back. While
none was, as in the tests of the repository, the receipt is right; `done_hash` shows that
its hash is not for longer segments. The same condition guards its place: a marker that
begins in held bytes is overlooked when the next segment has a marker of its own, and the
receipt then follows the first marker. `verify_e2e.py:146` compares `request_hash` with the
hash of the whole body. `request_hash` (the run) shows that they differ when the upstream
answers before it has read the body.

## StreamRedactor

`Push` and `Finish` are the two calls. `Redact` is `redact_text`, the reference: a scan
from left to right (`Found`, a recursive function of the place in the text) that reports a
match as soon as a pattern ends, as the standard match kind of the (external)
Aho-Corasick automaton does. `SafeBoundary` is the hold-back,
`ValidLen` the UTF-8 check, with characters of one or two bytes: at most one byte of an
incomplete character is held back. UTF-8 has characters of up to four bytes, and the bound of
`HeldBackBounded` is then the longest pattern and three bytes.

`stream_redactor` has two patterns related as `password` and `ssn` are (the longer one
contains the beginning of the shorter one, and neither begins as one of them ends), five
letters of which two make up two-byte characters, chunks up to four bytes, seven bytes in
all. The buffer holds three or five bytes, so its limit is met both inside and behind a
match.

| Property | What it says |
|---|---|
| `StreamMatchesWhole` | for every cut, the stream redacted is the whole text redacted |
| `HeldBackBounded` | no more than the longest pattern and an incomplete character is held back |
| `FailureReleasesPrefix` | a response that fails has released a beginning of the redacted text |
| `Utf8Exact` | a text is rejected exactly when it is not UTF-8 |

The first and the third are about patterns of which none begins as one ends (`Separate`)
and text in one case (`OneCase`). The built-in patterns `password`, `secret` and `ssn` are
separate; `MCStreamRedactor` has both conditions as an assumption that TLC evaluates.
Without either of them streaming does not agree with `redact_text`: `redact_case` is about
mixed case, and a pattern that begins as it ends is among the other disagreements below.

## HotReload

The two watcher threads read their file after a notification, up to four times, and
put the contents in force. A file's contents are the set of its entries. `history` is
the sequence of rule sets stored in `engine_state`, so requests can remember which one
they saw (`digest`, `used`, `applied`). The model has the gap between the first read of
a file and the start of its watcher, the two stores of `watch_pii_config`, the panic of
a rule set that does not compile, the refusal of an empty keyring, and the clearing of the
tenants' budgets before the keyring is replaced. Notifications of other files are left
out; they change nothing.

`hot_reload` has one change per file, one update and one request, four reads per
notification, four rule sets (one of which does not compile) and four keyrings.
One request is enough, as requests only meet in the map of budgets; the proofs hold for
any number of them. `reload_liveness` has two changes per file, so that the second can
hit every point of the first reload, and rule sets that compile, since the promise ends
with a thread that panicked. It runs under weak fairness of the watcher threads, which
are threads of the operating system. Nobody is forced to change a file.

## Lifecycle: HostRelay, Boot, Serving

`HostRelay` has the stages of a connection to VSOCK port 8000 under the 3 s timeout
around all of it, and the scan of a CONNECT header as a pure function
(`ReadConnectTarget`, a recursive function of the place and of the state of the scan)
next to its definition (`FirstBlankLine`). `Boot` is `main` up to the
accept loop, one action per step that can fail, for the three builds (Nitro, Kind,
debug). A KMS request is up to `MaxAttempts` connections through the tunnel and the relay.
`Serving` is the accept loop with the TLS handshake inside `accept`, the watch channel of
`shutdown_signal`, the drain and the watchdog. `Lifecycle` composes them: a signal may come
at any step, and other connections to the relay compete with those of the SDK.

`sound` says that the surroundings do their part: every file, variable, port, credential,
device and service that `main` asks for is there and right. It is chosen at the start, and
a step of `main` may panic for a reason outside only if it does not hold. `relay` says who
has VSOCK port 8000. It is the relay of this repository, or another program (`"other"`): the
host that `terraform/eks_enclaves/main.tf` sets up runs the `vsock-proxy` of AWS there.
The relay here dials the whole authority, port included, as a host name (`TargetHost`), and
no name with a colon resolves. A dial therefore never succeeds, and lines 61 to 69 of
`vsock_host_bridge.rs` are never reached.

A panic of `main`, and its return after the drain, end in the drop of the runtime
(`"unwinding"`, `"returning"`). It cancels the tasks, the watchdog among them, and waits for
the `spawn_blocking` threads that have started (`watchers`): `watch_pii_config` if
`PII_CONFIG_PATH` is set, `watch_auth_file` outside of Nitro mode. They end by a panic only.
The handlers of the signals stay installed meanwhile, with nobody to notify.

`lifecycle` has two connections for the SDK (an abandoned attempt leaves the relay's end of
the first behind while the second is used), one stray connection, two attempts per request
and two clients (one in its handshake while the other waits). `HeaderScanExact` is
evaluated on all inputs of up to seven bytes with a limit of six: below, at and above it.

| Property | What it says |
|---|---|
| `FailClosed` | nobody is served before both secrets are unsealed |
| `HeaderScanExact` | the scan stops behind the first blank line and refuses exactly the longer headers |
| `BootDecides` | a Kind boot, and a Nitro boot through the relay, come to serve or to panic |
| `SoundBootServes` | in sound surroundings every boot comes to serve; the second unsealing finds the tunnels of the first |
| `ShutdownCompletes` | a signal that reaches the handler ends the service: nothing but a watcher thread can keep the process |
| `ClientsNotStarved` | failed handshakes do not stop the accept loop |

Fairness. Weak fairness of `main`, of the accept loops, of the drain, of the watchdog's
timers, of the drop of the runtime and of the relay's bind and timeout. KMS and LocalStack
answer in sound surroundings (`sound /\ KmsReply`), which only `SoundBootServes` needs.
Nothing else is assumed of them, nor of clients, signals or the relay's peers: `ReadHeader`,
`Dial`, `HandshakeDone`, `ClientLeaves` and a panic of a watcher may never happen.
`BootDecides` excludes the debug build, whose call to LocalStack has no timeout, and another
program in the relay's place. `SoundBootServes` excludes a Nitro boot through the relay of
this repository, which fails in any surroundings (`NitroServesWithoutRelay`).
`ClientsNotStarved` is conditional on no client keeping its handshake open for ever, since
the handshake runs inside `accept` and has no timeout.

`shutdown_hang` is what is left of the promise of the watchdog (`ShutdownEndsProcess`): a
drain that completes makes `main` return, and with a watcher running the process stays.

`relay_ports` puts the pod's entrypoint next to the relay. The script waits for VSOCK port
8001 as well, on which nothing listens, and gives up although the relay is up.

## What is proved

Every safety property that a passing run checks is a theorem as well, for every value of
the constants. The bounds of the runs (`MaxFed`, `MaxInput`, `MaxWrites` and the like) are
constants too, so a theorem holds for each of them.

### Budgets and queues

For any finite set of streams, any tenants and any sizes (`BudgetAssumption`):

| Theorem | Module | Statement |
|---|---|---|
| `TypeCorrect`, `TasksConsistent` | `BudgetQueueTasks` | `Spec => []TypeOK`, `[]TaskConsistent` |
| `GlobalConserved`, `TenantConserved`, `InUseIsExact` | `BudgetQueueLedger` | `Spec => []GlobalPermitsConserved`, `[]TenantPermitsConserved`, `[]InUseExact` |
| `TenantGrowsByReloads` | `BudgetQueueLedger` | `Spec => []TenantBoundedPerReload` |
| `TenantBoundedUntilReload` | `BudgetQueueLedger` | `Spec => [](epoch = 0 => TenantBytesBounded)` |
| `PoolsRefineLedger` | `BudgetQueueLedger` | `Spec => PoolsAreLedgers` |
| `StreamPermitsExact`, `SseGaugeExact` | `BudgetQueueStreams` | `Spec => []StreamPermitsConserved`, `[]ActiveSseExact` |
| `NoGap` | `BudgetQueueStreams` | `Spec => NoDataAfterGap` |
| `QueuesExact` | `BudgetQueueStreams` | `Spec => []WaitersExact` |

The inductive invariant of the accounts is `TypeOK /\ TaskConsistent /\ Accounts`.
`Accounts` says of each semaphore and of the gauge that what is free and what is held add
up. It is not inductive alone: `TenantPermit` writes the slot behind the last segment, and
the books only balance if that slot was empty; a task must also have no segment at all
before it runs. Those two facts are in `TaskConsistent`.

What is held is a sum over streams and segments. It is written as the cardinality of the
set of bytes held (`HeldBytes`), so that no induction is needed: a step that changes one
slot adds or removes a set of known size, and lemmas on cardinality
give the new total. Each action then has one step per account that it changes.

The documented limit on a tenant does not hold (other disagreements, below);
`TenantBoundedPerReload` is what the code keeps instead: one budget until the auth file is reloaded, one more for every
reload. Its proof needs `BudgetsNotNewer` (a stream's semaphore comes from a map that
existed) beside `Accounts`: the bytes a tenant holds from its first n semaphores are at
most n budgets (`BudgetsAddUp`), since there is no least n for which they are more. The
bound is reached only while responses of every generation are alive.

The refinement uses that invariant in both states of a step: a step either changes no
holding, or one slot from nothing to something or back (`Swaps`), and the sum that
`Accounts` gives for the new state keeps it within the capacity.

The two counts of `BudgetQueueStreams` need `SseHasTask`: a response marked as SSE has a task
whose guard has not run, and a body; without the body `UnwindStream` would skip the guard.
`NoGap` needs `AllDelivered`: while a task may send data, all slices it reserved are in
the channel, except the one in the making. `QueuesExact` goes by `Waiting`: no stream is
twice in a queue, and the members of a queue are the streams in its phase. The lemmas
say what joining, the grant to the first and leaving from any place (`Without`) do to both.

### The stream task and the detector

For any marker of two bytes or more, any alphabet, any cuts of request and
response and any body limit (`MarkerAssumption`, `StreamAssumption`), `StreamTaskProofs`
proves `StreamTypes`, `StreamPassesThrough` (`PassThrough`), `StreamMissesNoMarker`
(`MarkerNeverMissed`), `StreamProbeInBounds`, `StreamOneReceipt`, `StreamReceiptExact`
(`ReceiptExactForShortSegments`), `StreamLoggedWhole` (`LoggedOnlyWhole`),
`StreamAdmittedOnly` (`OnlyAdmittedBytesSent`) and `StreamRequestHash`
(`RequestHashExactIfReadFirst`).

The invariant is `StreamInv == TypeOK /\ DetectorOK /\ WireOK /\ RequestOK`
(`StreamTaskDetector`). `DetectorOK` is what holds between two calls of the detector: the
bytes returned and held back are the bytes fed, and as long as no receipt was made there
is no marker in them and, while segments are short, the hash is that of the bytes
returned. `WireOK` has what makes it inductive: in the loop exactly
`min(fed, marker_len - 1)` bytes are held back (`Retained`). If fewer were, a marker
could pass in two parts. The argument of `MarkerNeverMissed` is that a marker which is in
the old bytes and the new segment together, and in neither alone, lies across the
boundary, so it begins in the held bytes and is in the probe. `StreamTaskDetector` has one lemma per outcome of `inspect`, of `finish` and of
`shutdown`; `StreamTaskProofs` has one step per action of the task.

### The redactor

For any patterns, alphabet, chunks and capacities (`PatternAssumption`,
`PatternsWellFormed`), `StreamRedactorProofs` proves `RedactorTypes`,
`RedactorHoldsLittle` (`HeldBackBounded`) and `RedactorRejectsExactly` (`Utf8Exact`); for
separate patterns and one case also `RedactorMatchesWhole` (`StreamMatchesWhole`) and
`RedactorFailsClean` (`FailureReleasesPrefix`). The two hypotheses are in the statements,
as the code does not establish them: any rule set may be configured, and neither can be left
out (`redact_case`, and the other disagreements below).

`StreamMatchesWhole` speaks of the text so far and is not inductive. `Matches` says it for
every continuation: `out \o Redact(pending \o f) = Redact(fed \o f)` for every `f`. A push
then only has to show that cutting a text at the safe boundary changes nothing:
`Redact(a \o f) = Redact(Take(a, k)) \o Redact(Drop(a, k) \o f)`. This holds where no match lies across
`k` (`RedactParts`). The boundary is such a place: a pattern that begins in front of it and
ends behind it would be begun by more than the longest beginning the text ends with, or
by the end of a complete pattern, which `Separate` excludes.
`RedactorInv` adds for UTF-8 that the bytes fed are well-formed text followed by the bytes
held back.

### Reloads

For any tokens, patterns, requests, updates, retries and any number of file changes,
`HotReloadProofs` proves `ReloadTypeCorrect`, `StreamsIsolated` (`SnapshotIsolation`),
`DigestNotNewer` (`EngineNotOlderThanDigest`), `BudgetsValid`
(`BudgetsOnlyForValidTokens`) and `KeyringKept` (`KeyringNeverEmptied`). The invariant
`ReloadInv` adds what a request and a watcher rely on between two of their steps: a request
names a rule set from the start of its handler and has an engine only once the upstream has
answered, the token of a request in its handler was valid once, and a watcher about to store a
keyring holds one that is not empty.

### The life of the process

For any connections, clients and attempts (`BootAssumption`, `ServingAssumption`,
`RelayAssumption`), `LifecycleProofs` proves `LifeTypeCorrect`, `ServesOnlyUnsealed`
(`FailClosed`), `NitroServesWithoutRelay` and `HeaderScans` (`HeaderScanExact`). The
invariant adds `BootOrder`: which secrets each step of `main` finds unsealed, and which steps
belong to the Nitro build only, so that the bound on attempts is the SDK's.

`NitroServesWithoutRelay` says that a Nitro build which serves has another program than this
relay on VSOCK port 8000. It goes by `NothingCopied` (no connection of the relay is ever
in the copying stage, as no authority resolves) and `UnsealedElsewhere` (a Nitro build has
unsealed its upstream key only if somebody else carried the call).

`ReadsToBlankLine` is about `ReadConnectTarget` for inputs of every length. The outcome of
the scan from any place in any of its four states is written down explicitly
(`Outlook`, in terms of the first blank line that can still be completed). It satisfies the
equations of the scan, and these have one solution only.

### Recursive functions

`Found` and the scan of the header are recursive functions. What they compute is proved
in two parts: a function given explicitly satisfies the equations (so that one exists), and
two functions that satisfy them agree, since there is no least place at which they differ.
That is induction by the least element of a set of naturals, which the provers can use;
the induction theorems of the library, which take an operator, they cannot.

## What is only model-checked

Liveness (`RequestsComplete`, `LastWriteTakesEffect`, `BootDecides`, `SoundBootServes`,
`ShutdownCompletes`, `ClientsNotStarved`): the provers do not handle fairness. The
disagreements below are counterexamples, found by TLC.

## Disagreements between code and documents

Five runs are expected to be violated; `findings` in `PROJECT.json` quotes the lines.

| Run | What the code does |
|---|---|
| `done_hash` | held bytes are sent and not hashed (lib.rs:1074) |
| `request_hash` | the request hash is taken before the body is read (lib.rs:1117) |
| `redact_case` | the hold-back minds case while the search does not (engine.rs:302) |
| `shutdown_hang` | the drop of the runtime waits for threads that never end (main.rs:145, 152) |
| `relay_ports` | the entrypoint waits for a port nobody opens (deploy/pod_entrypoint.sh:49) |

### Other disagreements

These have no run of their own. TLC finds each of them when the configuration named is
changed as described.

| Property | Configuration | What the code does |
|---|---|---|
| `TenantBytesBounded` | `MCBudgetQueue.cfg` with it as the invariant, `GlobalMemory = 5`, `TenantMemory = 2`, `OutputByteBudget = 2`, `MaxSegments = 2` | a reload gives a tenant a second semaphore (main.rs:469), against PHASE_COMPLETION_REPORT.md:67 "Memory bounds enforced (per-tenant ≤ 16MiB, global ≤ 256MiB)"; `TenantBoundedPerReload` says by how much |
| `StreamBytesBounded` | `MCBudgetLiveness.cfg` with `Spec`, it as the invariant and `MaxSegments = 3` | the capacity of a `ByteBudget` bounds a segment, not the queue of a response (budget_queue.rs:98), against COMPLIANCE_DRAFT.md:19 "queued bytes + in-flight bytes <= configured byte budget" |
| `LoggedDigestExact` | `MCRequestHash.cfg` with it as the invariant | the digest logged of an event stream ends in front of the marker (lib.rs:857), against COMPLIANCE_DRAFT.md:25 "every post-redaction output segment"; `LoggedOnlyWhole` says what holds |
| `StreamMatchesWhole` | `MCRedactCase.cfg` with `Alphabet = {1, 2}`, `Lower <- SameCase`, `Patterns <- SelfOverlap`, `MaxFed = 7` | for a pattern that begins as it ends the hold-back cuts a match in two (engine.rs:312), against COMPLIANCE_DRAFT.md:11 "held until the engine can prove that a prefix is safe to release" |
| `DialsApprovedHost` | `MCLifecycle.cfg` with `Spec` and it as the only property | the relay approves a host and dials the authority (vsock_host_bridge.rs:58), against its own "KMS CONNECT target is not an approved hostname" (line 138); `NitroServesWithoutRelay` says what follows |

## Not modelled

- Cryptography and encodings: CBOR, CMS, RSA, signatures, JSON, HTTP framing. A decrypt,
  a signature check or a parse succeeds or fails.
- The resolver, KMS, LocalStack, the NSM and the HTTP client are external. A body over the
  limit is answered by 413 or 502, as the client does or does not keep the cause of its error.
- The concurrency limit of 1000 in front of the router, the metrics server on port
  9090, the headers of CORS answers, the request id and logging: no property depends on
  them.
- Time: a timeout is a step that may happen, and has to where it is fair.
- `bin/vsock_host_bridge.rs` does not build (it borrows the parameter `client_stream`,
  which is not `mut`, mutably at line 72) and shares no state with the rest.
- `domain.rs`: nothing calls it.
- Build scripts, load tests and units of the service manager. The restart policy of the
  host relay never applies, as its `main` stays pending when the relay's task ends.
