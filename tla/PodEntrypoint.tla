--------------------------- MODULE PodEntrypoint ----------------------------
(***************************************************************************)
(* deploy/pod_entrypoint.sh next to the host relay it starts: it waits for   *)
(* the VSOCK ports of the relay one after the other, launches the enclave   *)
(* and watches it.                                                          *)
(***************************************************************************)
EXTENDS HostRelay

CONSTANT Tries    \* polls of a port, one a second, 30 in the script

VARIABLES
  script,   \* "wait", "launch", "watch", or how the script ended
  waiting,  \* the ports still to wait for
  tries,    \* polls of the first of them so far
  alive     \* the process of the relay

vars == <<relayVars, script, waiting, tries, alive>>

\* start_host_daemon runs one relay, on one port.
ExposedPorts == IF relay = "listening" THEN {8000} ELSE {}

Init ==
  /\ RelayInit /\ relay = "starting"
  /\ script = "wait" /\ waiting = <<8000, 8001>> /\ tries = 0 /\ alive = TRUE

Ends(how) == script' = how /\ UNCHANGED <<waiting, tries, alive, relayVars>>

RelayExited == script = "wait" /\ ~alive /\ Ends("relay_exited")

PortFound ==
  /\ script = "wait" /\ alive
  /\ Head(waiting) \in ExposedPorts
  /\ waiting' = Tail(waiting) /\ tries' = 0
  /\ script' = IF Len(waiting) = 1 THEN "launch" ELSE "wait"
  /\ UNCHANGED <<alive, relayVars>>

PortMissing ==
  /\ script = "wait" /\ alive
  /\ Head(waiting) \notin ExposedPorts
  /\ tries' = tries + 1
  /\ script' = IF tries' = Tries THEN "gave_up" ELSE "wait"
  /\ UNCHANGED <<waiting, alive, relayVars>>

RunEnclave == script = "launch" /\ (Ends("watch") \/ Ends("no_enclave"))

EnclaveGone == script = "watch" /\ Ends("enclave_gone")

\* SIGTERM or SIGINT: cleanup stops the enclave and the relay.
Cleanup ==
  /\ script \in {"wait", "launch", "watch"}
  /\ script' = "stopped" /\ alive' = FALSE
  /\ UNCHANGED <<waiting, tries, relayVars>>

\* The relay's process binds, fails to, or is killed; it never exits by itself.
RelayMoves ==
  /\ alive
  /\ \/ (Bind \/ AcceptFails) /\ UNCHANGED alive
     \/ alive' = FALSE /\ relay' = "stopped" /\ UNCHANGED <<stage, request>>
  /\ UNCHANGED <<script, waiting, tries>>

Next ==
  \/ RelayExited \/ PortFound \/ PortMissing \/ RunEnclave \/ EnclaveGone \/ Cleanup
  \/ RelayMoves

Spec == Init /\ [][Next]_vars

\* "host relay did not expose VSOCK port" is said of a relay that failed: with a
\* relay that listens, the script goes on to launch the enclave.
GivesUpOnFailedRelay == [][script' = "gave_up" => relay # "listening"]_script
=============================================================================
