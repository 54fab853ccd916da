------------------------------ MODULE Serving -------------------------------
(***************************************************************************)
(* The accept loop of the proxy port and its end: axum::serve over the      *)
(* TlsListener of tls.rs or over plain TCP, the watch channel of            *)
(* shutdown_signal, the drain, and the watchdog that main.rs spawns.        *)
(***************************************************************************)
EXTENDS Integers, Sequences, SequencesExt

CONSTANTS
  Clients,
  NoClient

ASSUME ServingAssumption == NoClient \notin Clients

VARIABLES
  server,     \* "accepting", or "draining" once with_graceful_shutdown resolved
  backlog,    \* connections the kernel has queued on the proxy port
  handshake,  \* the connection TlsListener::accept is busy with
  open,       \* connections that axum serves
  handler,    \* the task of shutdown_signal has installed its handlers
  signalled,  \* the watch channel holds true
  watchdog    \* "armed", "sleeping" (SHUTDOWN_TIMEOUT_SEC), "grace" (3 s)

servingVars == <<server, backlog, handshake, open, handler, signalled, watchdog>>
connVars == <<backlog, handshake, open>>

ServingInit ==
  /\ server = "accepting" /\ watchdog = "armed"
  /\ backlog = <<>> /\ handshake = NoClient /\ open = {}
  /\ handler = FALSE /\ signalled = FALSE

\* The listener is dropped when the loop ends, and resets what it has queued.
ClientConnects(c) ==
  /\ server = "accepting"
  /\ c \notin ToSet(backlog) \cup {handshake} \cup open
  /\ backlog' = Append(backlog, c)
  /\ UNCHANGED <<server, handshake, open, handler, signalled, watchdog>>

\* With TLS the handshake runs inside accept, one connection after the other.
AcceptClient(tls) ==
  /\ server = "accepting" /\ handshake = NoClient /\ backlog # <<>>
  /\ backlog' = Tail(backlog)
  /\ IF tls THEN handshake' = Head(backlog) /\ UNCHANGED open
            ELSE open' = open \cup {Head(backlog)} /\ UNCHANGED handshake
  /\ UNCHANGED <<server, handler, signalled, watchdog>>

HandshakeDone ==
  /\ handshake # NoClient
  /\ open' = open \cup {handshake} /\ handshake' = NoClient
  /\ UNCHANGED <<server, backlog, handler, signalled, watchdog>>

\* accept returns an error: it is logged and the loop goes on.
AcceptFailed ==
  /\ server = "accepting" /\ handshake = NoClient /\ backlog # <<>>
  /\ backlog' = Tail(backlog)
  /\ UNCHANGED <<server, handshake, open, handler, signalled, watchdog>>

\* Fault: a failed handshake is tried again before the next connection.
HandshakeTriedAgain ==
  /\ handshake # NoClient
  /\ handshake' = NoClient /\ backlog' = <<handshake>> \o backlog
  /\ UNCHANGED <<server, open, handler, signalled, watchdog>>

\* A failed handshake is logged, and the loop accepts the next connection.
HandshakeFails ==
  /\ handshake # NoClient
  /\ handshake' = NoClient
  /\ UNCHANGED <<server, backlog, open, handler, signalled, watchdog>>

\* The client is served, or is gone.
ClientLeaves(c) ==
  /\ c \in open
  /\ open' = open \ {c}
  /\ UNCHANGED <<server, backlog, handshake, handler, signalled, watchdog>>

InstallHandler ==
  /\ ~handler /\ handler' = TRUE
  /\ UNCHANGED <<server, connVars, signalled, watchdog>>

Notify ==
  /\ handler /\ ~signalled
  /\ signalled' = TRUE
  /\ UNCHANGED <<server, connVars, handler, watchdog>>

\* changed() resolves: no receiver has seen the value yet, whenever it was
\* cloned.  The loop drops its listener and a handshake under way with it.
BeginDrain ==
  /\ signalled /\ server = "accepting"
  /\ server' = "draining" /\ backlog' = <<>> /\ handshake' = NoClient
  /\ UNCHANGED <<open, handler, signalled, watchdog>>

Drained == server = "draining" /\ open = {}

\* Fault: the watchdog waits for the drain.
WatchdogWakesLate ==
  /\ Drained /\ watchdog = "armed"
  /\ watchdog' = "sleeping"
  /\ UNCHANGED <<server, connVars, handler, signalled>>

WatchdogWakes ==
  /\ signalled /\ watchdog = "armed"
  /\ watchdog' = "sleeping"
  /\ UNCHANGED <<server, connVars, handler, signalled>>

WatchdogExpires ==
  /\ watchdog = "sleeping"
  /\ watchdog' = "grace"
  /\ UNCHANGED <<server, connVars, handler, signalled>>

ServingTypeOK ==
  /\ server \in {"accepting", "draining"}
  /\ watchdog \in {"armed", "sleeping", "grace"}
  /\ backlog \in Seq(Clients) /\ open \subseteq Clients
  /\ handshake \in Clients \cup {NoClient}
  /\ handler \in BOOLEAN /\ signalled \in BOOLEAN
=============================================================================
