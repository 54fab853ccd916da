----------------------------- MODULE Lifecycle ------------------------------
(***************************************************************************)
(* One life of the proxy, from main to the end of the process, next to the  *)
(* host relay it unseals its secrets through: Boot, then Serving, composed  *)
(* with HostRelay, and then the drop of the runtime.  A signal may come at   *)
(* any time, other connections to the relay too.                            *)
(***************************************************************************)
EXTENDS Boot, Serving

vars == <<relayVars, bootVars, servingVars>>

Init == RelayInit /\ BootInit /\ ServingInit

-----------------------------------------------------------------------------
BootStep ==
  /\ LocalStep
  /\ UNCHANGED <<relayVars, servingVars>>

KmsCall ==
  /\ \E c \in Calls : CallKms(c)
  /\ UNCHANGED servingVars

KmsReply ==
  /\ KmsAnswers \/ LocalStackDecrypt
  /\ UNCHANGED <<relayVars, servingVars>>

Abandon == CallAbandoned /\ UNCHANGED <<relayVars, servingVars>>

RelayStep == RelayNext /\ UNCHANGED <<bootVars, servingVars>>

\* Something else on the host or in an enclave connects to the relay once.
Stray ==
  /\ \E c \in Conns \ Calls, r \in Requests : stage[c] = "idle" /\ Reaches(c, r)
  /\ UNCHANGED <<bootVars, servingVars>>

Handled ==
  /\ pc \in {"listen", "serving"} /\ InstallHandler
  /\ UNCHANGED <<relayVars, bootVars>>

WatcherStep ==
  /\ pc \notin Over /\ WatcherPanics
  /\ UNCHANGED <<relayVars, servingVars>>

\* SIGTERM or SIGINT: without a handler it ends the process.  Once the runtime
\* is being dropped, nobody is left to take it from the handler.
Signal ==
  /\ pc \notin Over
  /\ \/ ~handler /\ Proceeds("killed") /\ UNCHANGED servingVars
     \/ pc \notin Dropping /\ Notify /\ UNCHANGED bootVars
  /\ UNCHANGED relayVars

AcceptStep ==
  /\ pc = "serving" /\ AcceptClient(nitroEnv)
  /\ UNCHANGED <<relayVars, bootVars>>

ClientStep ==
  /\ pc = "serving"
  /\ \/ \E c \in Clients : ClientConnects(c) \/ ClientLeaves(c)
     \/ AcceptFailed \/ HandshakeDone \/ HandshakeFails
  /\ UNCHANGED <<relayVars, bootVars>>

DrainStep ==
  /\ pc = "serving" /\ BeginDrain
  /\ UNCHANGED <<relayVars, bootVars>>

WatchdogStep ==
  /\ pc = "serving" /\ (WatchdogWakes \/ WatchdogExpires)
  /\ UNCHANGED <<relayVars, bootVars>>

\* The watchdog calls exit, which asks nobody.
ForceExit ==
  /\ pc = "serving" /\ watchdog = "grace"
  /\ Proceeds("exited")
  /\ UNCHANGED <<relayVars, servingVars>>

\* main returns after the drain.  The drop of the runtime cancels every task,
\* the watchdog too.
MainReturns ==
  /\ pc = "serving" /\ Drained
  /\ Drops("returning")
  /\ UNCHANGED <<relayVars, servingVars>>

\* ... and waits for the blocking threads.
RuntimeDropped ==
  /\ pc \in Dropping /\ watchers = {}
  /\ Proceeds(IF pc = "unwinding" THEN "panicked" ELSE "exited")
  /\ UNCHANGED <<relayVars, servingVars>>

\* The process is gone, or main waits for its watchers.
HeldByWatcher == pc \in Dropping /\ watchers # {}
Rests == (pc \in Over \/ HeldByWatcher) /\ UNCHANGED vars

Next ==
  \/ BootStep \/ KmsCall \/ KmsReply \/ Abandon \/ RelayStep \/ Stray
  \/ Handled \/ WatcherStep \/ Signal \/ AcceptStep \/ ClientStep \/ DrainStep
  \/ WatchdogStep \/ ForceExit \/ MainReturns \/ RuntimeDropped \/ Rests

Spec == Init /\ [][Next]_vars

(***************************************************************************)
(* The runtime polls tasks that are ready and timers fire: main, the accept *)
(* loops, the drain, the watchdog and the timeout of the relay.  KMS and     *)
(* LocalStack answer in sound surroundings.  Nothing else is assumed of      *)
(* them, of clients, signals and the peers of the relay.                    *)
(***************************************************************************)
Fairness ==
  /\ WF_vars(BootStep) /\ WF_vars(KmsCall) /\ WF_vars(sound /\ KmsReply)
  /\ WF_vars(Bind /\ UNCHANGED <<bootVars, servingVars>>)
  /\ \A c \in Conns :
       /\ WF_vars(AcceptVsock(c) /\ UNCHANGED <<bootVars, servingVars>>)
       /\ WF_vars(RelayTimeout(c) /\ UNCHANGED <<bootVars, servingVars>>)
  /\ WF_vars(Handled) /\ WF_vars(AcceptStep)
  /\ WF_vars(DrainStep) /\ WF_vars(WatchdogStep) /\ WF_vars(ForceExit)
  /\ WF_vars(MainReturns) /\ WF_vars(RuntimeDropped)

FairSpec == Spec /\ Fairness

-----------------------------------------------------------------------------
TypeOK == RelayTypeOK /\ BootTypeOK /\ ServingTypeOK

\* "refusing unauthenticated boot": no connection gets as far as a handshake
\* before the keyring is loaded and the upstream key is decrypted.
FailClosed == handshake # NoClient \/ open # {} => secrets = Secrets

\* read_connect_target stops right behind the first blank line, so what the peer
\* sent after its CONNECT header stays in the BufReader for copy_bidirectional,
\* and it refuses exactly the headers longer than MAX_CONNECT_HEADERS.  A fact
\* about all inputs, looked at before anything has happened.
HeaderScanExact ==
  pc = "config" /\ relay = "starting" =>
    \A input \in BoundedSeq(Bytes, MaxInput) :
      ReadConnectTarget(input) = FirstBlankLine(input)

\* A Nitro boot through the relay and a Kind boot come to a decision, even if
\* KMS never answers or the relay has stopped: the SDK has no timeout for a
\* response, the 3 s of the relay end every attempt.
BootDecides ==
  (pc \in Booting /\ build # "debug" /\ relay # "other") ~> pc \notin Booting

\* The boot does not defeat itself: with nothing wrong outside, every build in
\* every mode comes to serve clients unless a signal ends it first.  In a Nitro
\* boot two decrypts in a row find one set of tunnels and a full number of
\* attempts each; the relay of this repository is left out (see README).
SoundBootServes ==
  (pc \in Booting /\ sound /\ (build = "nitro" => relay = "other"))
    ~> pc \in {"serving", "killed"}

\* A signal that reaches the handler ends the service, also one that arrives
\* before the server, the watchdog or the drain look at the channel, and
\* whatever the open connections and a handshake under way do.  After that
\* nothing but a watcher thread keeps the process.
ShutdownCompletes == signalled ~> pc \in Over \/ HeldByWatcher

\* "graceful shutdown watchdog expired; forcing process exit": a signal that
\* reaches the handler ends the process, by itself or by the watchdog.
ShutdownEndsProcess == signalled ~> pc \in Over

\* A failed or aborted handshake does not stop the accept loop: as long as no
\* client keeps a handshake open for ever, every connection that waits in the
\* backlog is taken up.
ClientsNotStarved ==
  \A c \in Clients :
    []<>(handshake = NoClient)
      => (pc = "serving" /\ c \in ToSet(backlog)
            ~> pc # "serving" \/ c \notin ToSet(backlog))
=============================================================================
