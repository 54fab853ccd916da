------------------------------ MODULE HotReload ------------------------------
(***************************************************************************)
(* Hot reloading of the two files the proxy is configured by, and what a   *)
(* request in progress sees of it:                                         *)
(*   - the watcher threads of main.rs (watch_auth_file, watch_pii_config), *)
(*   - POST /_admin/rules (update_rules in lib.rs),                        *)
(*   - require_auth and the two loads of the engine that                   *)
(*     proxy_with_upstream makes for one request.                          *)
(* The contents of a file are the set of its entries: the tokens of the    *)
(* auth file, the patterns of the PII configuration.  An empty or blank    *)
(* file is the empty set.                                                  *)
(***************************************************************************)
EXTENDS Integers, Sequences, FiniteSets

CONSTANTS
    Tokens,       \* the bearer tokens the auth file may list
    Patterns,     \* the patterns a rule set may hold
    Uncompilable, \* rule sets for which building the automaton panics
    Unreadable,   \* the state of a file that cannot be read (removed, not UTF-8)
    Requests,     \* client requests
    Updates,      \* calls of POST /_admin/rules
    Retries,      \* reads of a file per notification (four delays in the code)
    MaxWrites     \* bound: changes of each file

ASSUME RetriesAssumption == Retries \in Nat \ {0}
ASSUME MaxWritesAssumption == MaxWrites \in Nat
ASSUME UncompilableAssumption == Uncompilable \subseteq SUBSET Patterns

VARIABLES
    file,      \* per watcher, the contents of the file, or Unreadable
    writes,    \* per watcher, how often the file was changed
    events,    \* per watcher, notifications waiting in its channel
    thread,    \* per watcher, where its thread is
    tries,     \* per watcher, reads that failed for this notification
    contents,  \* per watcher, what it read last
    keyring,   \* auth_keyring: the tokens accepted now
    everValid, \* history: the tokens accepted at some time
    budgets,   \* tenant_budgets: the tenants that have an entry
    history,   \* the rule sets stored in engine_state; the last one is in force
    vault,     \* the rule set the vault holds
    update,    \* per admin call, where it is
    rules,     \* per admin call, the patterns it brings
    req,       \* per request, where it is
    token,     \* per request, the bearer token it carries
    digest,    \* per request, index of the engine the receipt's policy_digest names
    used,      \* per request, index of the engine its redactor was built from
    applied    \* per request, indexes of the engines its chunks were redacted with

watcherVars == <<writes, events, thread, tries, contents>>
requestVars == <<req, token, digest, used, applied>>
vars == <<file, watcherVars, keyring, everValid, budgets, history, vault,
          update, rules, requestVars>>

Watchers == {"auth", "pii"}

Contents(w) == IF w = "auth" THEN SUBSET Tokens ELSE SUBSET Patterns

\* The index of the engine a load_full() returns now.
Current == Len(history)

TypeOK ==
    /\ \A w \in Watchers : file[w] \in Contents(w) \union {Unreadable}
    /\ writes \in [Watchers -> 0..MaxWrites]
    /\ events \in [Watchers -> 0..MaxWrites]
    /\ thread \in [Watchers -> {"starting", "waiting", "reading", "loaded",
                                "storing", "dead"}]
    /\ tries \in [Watchers -> 0..(Retries - 1)]
    /\ \A w \in Watchers : contents[w] \in Contents(w)
    /\ keyring \subseteq Tokens /\ everValid \subseteq Tokens
    /\ budgets \subseteq Tokens
    /\ history \in Seq(SUBSET Patterns) /\ Current > 0
    /\ vault \subseteq Patterns
    /\ update \in [Updates -> {"new", "compiling", "ok", "refused", "failed"}]
    /\ rules \in [Updates -> SUBSET Patterns]
    /\ req \in [Requests -> {"new", "authenticated", "begun", "streaming", "done"}]
    /\ token \in [Requests -> Tokens]
    /\ digest \in [Requests -> 0..Current]
    /\ used \in [Requests -> 0..Current]
    /\ applied \in [Requests -> SUBSET (1..Current)]

-----------------------------------------------------------------------------
\* main() has read both files once; the watcher threads are not watching yet.
\* The PII file may be unreadable at boot (the rules then come from the
\* environment); an unreadable auth file stops the boot.
Init ==
    /\ \E tokens \in SUBSET Tokens, patterns \in SUBSET Patterns \ Uncompilable :
         /\ keyring = tokens
         /\ everValid = tokens
         /\ history = <<patterns>>
         /\ vault = patterns
         /\ \E c \in {patterns, Unreadable} :
              file = [w \in Watchers |-> IF w = "auth" THEN tokens ELSE c]
         /\ contents = [w \in Watchers |-> IF w = "auth" THEN tokens ELSE patterns]
    /\ writes = [w \in Watchers |-> 0]
    /\ events = [w \in Watchers |-> 0]
    /\ thread = [w \in Watchers |-> "starting"]
    /\ tries = [w \in Watchers |-> 0]
    /\ budgets = {}
    /\ update = [u \in Updates |-> "new"]
    /\ rules = [u \in Updates |-> {}]
    /\ req = [r \in Requests |-> "new"]
    /\ token \in [Requests -> Tokens]
    /\ digest = [r \in Requests |-> 0]
    /\ used = [r \in Requests |-> 0]
    /\ applied = [r \in Requests |-> {}]

-----------------------------------------------------------------------------
(* The file system *)

\* Somebody replaces, truncates or removes a file (c may equal the old
\* contents: the watchers do not look at the kind of an event).  A watched
\* directory reports it; the notification of a dead thread goes nowhere.
WriteFile(w, c) ==
    /\ writes[w] < MaxWrites
    /\ writes' = [writes EXCEPT ![w] = @ + 1]
    /\ file' = [file EXCEPT ![w] = c]
    /\ events' = [events EXCEPT ![w] =
                    IF thread[w] \in {"starting", "dead"} THEN @ ELSE @ + 1]
    /\ UNCHANGED <<thread, tries, contents, keyring, everValid, budgets, history,
                   vault, update, rules, requestVars>>

-----------------------------------------------------------------------------
(* The watcher threads *)

stored == <<keyring, everValid, budgets, history, vault>>
others == <<file, writes, update, rules, requestVars>>

StartWatching(w) ==
    /\ thread[w] = "starting"
    /\ thread' = [thread EXCEPT ![w] = "waiting"]
    /\ UNCHANGED <<events, tries, contents, stored, others>>

\* for event in rx: the next notification that concerns the file.
TakeEvent(w) ==
    /\ thread[w] = "waiting"
    /\ events[w] > 0
    /\ events' = [events EXCEPT ![w] = @ - 1]
    /\ thread' = [thread EXCEPT ![w] = "reading"]
    /\ tries' = [tries EXCEPT ![w] = 0]
    /\ UNCHANGED <<contents, stored, others>>

\* Fault: one read more than there are delays.
GiveUpLate(w) == tries[w] = Retries

\* A failed read: sleep and try again, or give up after the last delay and
\* keep what is in force.
GiveUp(w) == tries[w] + 1 = Retries

ReadFails(w) ==
    /\ thread[w] = "reading"
    /\ file[w] = Unreadable
    /\ IF GiveUp(w)
         THEN thread' = [thread EXCEPT ![w] = "waiting"] /\ tries' = tries
         ELSE thread' = thread /\ tries' = [tries EXCEPT ![w] = @ + 1]
    /\ UNCHANGED <<events, contents, stored, others>>

ReadFile(w) ==
    /\ thread[w] = "reading"
    /\ file[w] # Unreadable
    /\ contents' = [contents EXCEPT ![w] = file[w]]
    /\ thread' = [thread EXCEPT ![w] = "loaded"]
    /\ UNCHANGED <<events, tries, stored, others>>

\* Fault: whatever was read is stored.
KeyringUnchecked == TRUE

\* watch_auth_file: an empty keyring is refused ...
KeyringAccepted == contents["auth"] # {}

RefuseEmpty ==
    /\ thread["auth"] = "loaded"
    /\ ~KeyringAccepted
    /\ thread' = [thread EXCEPT !["auth"] = "waiting"]
    /\ UNCHANGED <<events, tries, contents, stored, others>>

\* ... otherwise the tenants' budgets are forgotten first,
ClearBudgets ==
    /\ thread["auth"] = "loaded"
    /\ KeyringAccepted
    /\ budgets' = {}
    /\ thread' = [thread EXCEPT !["auth"] = "storing"]
    /\ UNCHANGED <<events, tries, contents, keyring, everValid, history, vault, others>>

\* Fault: notifications that arrived during the reload are taken for its own.
StoreKeyringDrains ==
    /\ thread["auth"] = "storing"
    /\ keyring' = contents["auth"]
    /\ everValid' = everValid \union keyring'
    /\ events' = [events EXCEPT !["auth"] = 0]
    /\ thread' = [thread EXCEPT !["auth"] = "waiting"]
    /\ UNCHANGED <<tries, contents, budgets, history, vault, others>>

\* then the keyring is replaced.
StoreKeyring ==
    /\ thread["auth"] = "storing"
    /\ keyring' = contents["auth"]
    /\ everValid' = everValid \union keyring'
    /\ thread' = [thread EXCEPT !["auth"] = "waiting"]
    /\ UNCHANGED <<events, tries, contents, budgets, history, vault, others>>

\* watch_pii_config: PiiVault::new or EngineState::new panics and takes the
\* thread with it; nothing was stored.
CompilePanics ==
    /\ thread["pii"] = "loaded"
    /\ contents["pii"] \in Uncompilable
    /\ thread' = [thread EXCEPT !["pii"] = "dead"]
    /\ events' = [events EXCEPT !["pii"] = 0]
    /\ UNCHANGED <<tries, contents, stored, others>>

\* Both were built: the engine is stored first,
StoreEngine ==
    /\ thread["pii"] = "loaded"
    /\ contents["pii"] \notin Uncompilable
    /\ history' = Append(history, contents["pii"])
    /\ thread' = [thread EXCEPT !["pii"] = "storing"]
    /\ UNCHANGED <<events, tries, contents, keyring, everValid, budgets, vault, others>>

\* then the vault.
StoreVault ==
    /\ thread["pii"] = "storing"
    /\ vault' = contents["pii"]
    /\ thread' = [thread EXCEPT !["pii"] = "waiting"]
    /\ UNCHANGED <<events, tries, contents, keyring, everValid, budgets, history, others>>

-----------------------------------------------------------------------------
(* POST /_admin/rules *)

\* An update without patterns is refused; any other is compiled on another
\* thread while requests and further updates go on.
PostRules(u, patterns) ==
    /\ update[u] = "new"
    /\ rules' = [rules EXCEPT ![u] = patterns]
    /\ update' = [update EXCEPT ![u] = IF patterns = {} THEN "refused" ELSE "compiling"]
    /\ UNCHANGED <<file, watcherVars, stored, requestVars>>

\* The blocking task panicked: 500, nothing stored.
UpdateFails(u) ==
    /\ update[u] = "compiling"
    /\ rules[u] \in Uncompilable
    /\ update' = [update EXCEPT ![u] = "failed"]
    /\ UNCHANGED <<file, watcherVars, stored, rules, requestVars>>

\* The engine is replaced, the vault is not; 200.
StoreRules(u) ==
    /\ update[u] = "compiling"
    /\ rules[u] \notin Uncompilable
    /\ history' = Append(history, rules[u])
    /\ update' = [update EXCEPT ![u] = "ok"]
    /\ UNCHANGED <<file, watcherVars, keyring, everValid, budgets, vault, rules,
                   requestVars>>

-----------------------------------------------------------------------------
(* A client request *)

fixed == <<file, watcherVars, keyring, everValid, history, vault, update, rules, token>>

\* Fault: the token is hashed and passed on, but not compared.
AcceptsAny(r) == TRUE

\* require_auth: the token is one of the keyring loaded now.
Accepts(r) == token[r] \in keyring

RequireAuth(r) ==
    /\ req[r] = "new"
    /\ req' = [req EXCEPT ![r] = IF Accepts(r) THEN "authenticated" ELSE "done"]
    /\ UNCHANGED <<fixed, budgets, digest, used, applied>>

\* proxy_with_upstream loads the engine for the receipt's policy_digest ...
LoadDigest(r) ==
    /\ req[r] = "authenticated"
    /\ digest' = [digest EXCEPT ![r] = Current]
    /\ req' = [req EXCEPT ![r] = "begun"]
    /\ UNCHANGED <<fixed, budgets, used, applied>>

\* ... waits for permits and the upstream, any of which may end the request
\* (load shedding, a timeout, an error answer that carries a terminal receipt) ...
RequestEnds(r) ==
    /\ req[r] \in {"authenticated", "begun", "streaming"}
    /\ req' = [req EXCEPT ![r] = "done"]
    /\ UNCHANGED <<fixed, budgets, digest, used, applied>>

\* Fault: the redactor is built from the vault.
VaultEngine == CHOOSE i \in 1..Current : history[i] = vault

\* The engine a stream is given: the one in force.
ActiveEngine == Current

\* ... and, once the upstream has answered, makes the tenant's budget and
\* loads the engine a second time, for the redactor of the stream.
Answer(r) ==
    /\ req[r] = "begun"
    /\ budgets' = budgets \union {token[r]}
    /\ used' = [used EXCEPT ![r] = ActiveEngine]
    /\ req' = [req EXCEPT ![r] = "streaming"]
    /\ UNCHANGED <<fixed, digest, applied>>

\* Fault: every chunk loads the engine again.
ChunkEngineNow(r) == Current

\* redactor.push: a chunk is redacted with the stream's own engine.
ChunkEngine(r) == used[r]

Chunk(r) ==
    /\ req[r] = "streaming"
    /\ applied' = [applied EXCEPT ![r] = @ \union {ChunkEngine(r)}]
    /\ UNCHANGED <<fixed, budgets, req, digest, used>>

-----------------------------------------------------------------------------
WatcherStep(w) ==
    \/ StartWatching(w)
    \/ TakeEvent(w)
    \/ ReadFails(w)
    \/ ReadFile(w)

AuthStores == RefuseEmpty \/ ClearBudgets \/ StoreKeyring

PiiStores == CompilePanics \/ StoreEngine \/ StoreVault

RequestStep(r) ==
    \/ RequireAuth(r)
    \/ LoadDigest(r)
    \/ RequestEnds(r)
    \/ Answer(r)
    \/ Chunk(r)

Next ==
    \/ \E w \in Watchers : \E c \in Contents(w) \union {Unreadable} : WriteFile(w, c)
    \/ \E w \in Watchers : WatcherStep(w)
    \/ AuthStores
    \/ PiiStores
    \/ \E u \in Updates :
         \/ \E patterns \in SUBSET Patterns : PostRules(u, patterns)
         \/ UpdateFails(u)
         \/ StoreRules(u)
    \/ \E r \in Requests : RequestStep(r)

Spec == Init /\ [][Next]_vars

\* The watchers are threads of their own that the system keeps running; nobody
\* has to write a file, post rules or send a request.
Fairness ==
    /\ \A w \in Watchers : WF_vars(WatcherStep(w))
    /\ WF_vars(AuthStores)
    /\ WF_vars(PiiStores)

FairSpec == Spec /\ Fairness

-----------------------------------------------------------------------------
(* Properties *)

\* A stream is redacted under one rule set from its first chunk to its last,
\* the one it was given when the upstream answered, whatever the watcher and
\* the administrators store meanwhile (lib.rs, the Arc held by the redactor).
SnapshotIsolation == \A r \in Requests : applied[r] \subseteq {used[r]}

\* A request is redacted with a rule set at least as new as every update that
\* was acknowledged before its handler began, and never with one older than
\* the set its receipt names (lib.rs, the loads for the digest and the redactor).
EngineNotOlderThanDigest ==
    \A r \in Requests : used[r] # 0 => digest[r] # 0 /\ digest[r] <= used[r]

\* The map of tenant budgets only grows by tenants whose token was valid at some
\* time: rejected requests leave no entry behind, also across reloads that run
\* between the check of a token and the creation of its entry.
BudgetsOnlyForValidTokens == budgets \subseteq everValid

\* A keyring that accepts somebody is never replaced by one that accepts
\* nobody, even when the auth file is read in the middle of being rewritten.
KeyringNeverEmptied == [][keyring # {} => keyring' # {}]_vars

\* What watcher w has put in force from its file.
InForce(w) == IF w = "auth" THEN keyring ELSE history[Current]

\* Once a notification waits and the file changes no more, the contents of the
\* file come into force, unless they are refused (an empty keyring, rules that
\* do not compile) or the thread has died: no write is lost because it
\* happened during the reload for an earlier one.
LastWriteTakesEffect ==
    \A w \in Watchers : \A c \in Contents(w) :
        (events[w] > 0 /\ [](file[w] = c))
            ~> \/ InForce(w) = c
               \/ w = "auth" /\ c = {}
               \/ w = "pii" /\ thread[w] = "dead"

=============================================================================
