----------------------------- MODULE HostRelay ------------------------------
(***************************************************************************)
(* The relay on the parent host that carries the enclave's KMS traffic      *)
(* (vsock_host_bridge.rs, started by bin/host_relay.rs), and the pure scan  *)
(* of a CONNECT header.  A connection goes through the stages of            *)
(* relay_connect_connection.  A string with colons in it (an authority, a   *)
(* host name) is the sequence of the parts between them.                    *)
(***************************************************************************)
EXTENDS Integers, Sequences, SequencesExt

CONSTANTS
  Conns,        \* connections to VSOCK port 8000
  MaxHeaders,   \* MAX_CONNECT_HEADERS
  MaxInput      \* bound of the inputs the scan is checked on

ASSUME RelayAssumption == MaxHeaders \in Nat /\ MaxInput \in Nat /\ MaxHeaders < MaxInput

VARIABLES
  relay,    \* who has VSOCK port 8000: the task run_host_vsock_relay ("starting",
            \* "listening", "stopped"), or "other", not a part of this repository
  stage,    \* where every connection is
  request   \* who opened it and the CONNECT request it sends

relayVars == <<relay, stage, request>>

Stages == {"idle", "backlog", "reading", "dialing", "copying", "closed"}
\* Stages of a connection that has a task, with the 3 s timeout around all of it.
InTask == {"reading", "dialing", "copying"}
\* The authorities of a CONNECT request: of KMS, without its port, of another host.
Authorities == {<<"kms", "443">>, <<"kms">>, <<"other", "443">>}
Requests == [cid : {"host", "enclave"}, authority : Authorities]
\* What the AWS SDK asks its proxy for.
SdkRequest == [cid |-> "enclave", authority |-> <<"kms", "443">>]
\* Names a resolver can know: no host name has a colon.
Resolvable == {<<"kms">>, <<"other">>}

-----------------------------------------------------------------------------
(***************************************************************************)
(* read_connect_target: one byte at a time until CR LF CR LF.               *)
(***************************************************************************)
Bytes == {"cr", "lf", "x"}
Found == 4

\* Fault: a CR that breaks the pattern does not begin a new one.
StepForgetsCr(state, byte) ==
  CASE state = 0 /\ byte = "cr" -> 1
    [] state = 1 /\ byte = "lf" -> 2
    [] state = 2 /\ byte = "cr" -> 3
    [] state = 3 /\ byte = "lf" -> Found
    [] OTHER -> 0

Step(state, byte) ==
  CASE state = 1 /\ byte = "lf" -> 2
    [] state = 2 /\ byte = "cr" -> 3
    [] state = 3 /\ byte = "lf" -> Found
    [] OTHER -> IF byte = "cr" THEN 1 ELSE 0

\* How the scan of an input that ends (the peer closes) comes out, and the
\* number of bytes it has taken from the BufReader by then.
ReadConnectTarget(input) ==
  LET scan[n \in 0 .. Len(input)] ==
        [state \in 0 .. 3 |->
           CASE n = MaxHeaders -> [verdict |-> "too_long", read |-> n]
             [] n # MaxHeaders /\ n = Len(input) -> [verdict |-> "eof", read |-> n]
             [] OTHER -> LET next == Step(state, input[n + 1])
                         IN  IF next = Found THEN [verdict |-> "header", read |-> n + 1]
                                             ELSE scan[n + 1][next]]
  IN  scan[0][0]

\* What the scan should find: the first blank line within the limit.
FirstBlankLine(input) ==
  LET ends == {n \in 4 .. Len(input) : n <= MaxHeaders
                 /\ SubSeq(input, n - 3, n) = <<"cr", "lf", "cr", "lf">>}
  IN  CASE ends # {} -> [verdict |-> "header", read |-> Min(ends)]
        [] ends = {} /\ Len(input) >= MaxHeaders ->
             [verdict |-> "too_long", read |-> MaxHeaders]
        [] OTHER -> [verdict |-> "eof", read |-> Len(input)]

-----------------------------------------------------------------------------
RelayInit ==
  /\ relay \in {"starting", "other"}
  /\ stage = [c \in Conns |-> "idle"]
  /\ request = [c \in Conns |-> SdkRequest]

Goes(c, s) == stage' = [stage EXCEPT ![c] = s] /\ UNCHANGED <<relay, request>>

\* VsockStream::connect reaches a listener, or fails at once.
Reaches(c, r) ==
  /\ relay = "listening"
  /\ stage[c] \in {"idle", "closed"}
  /\ stage' = [stage EXCEPT ![c] = "backlog"]
  /\ request' = [request EXCEPT ![c] = r]
  /\ UNCHANGED relay

Bind ==
  /\ relay = "starting"
  /\ relay' \in {"listening", "stopped"}
  /\ UNCHANGED <<stage, request>>

\* A CID up to 2 or VMADDR_CID_ANY is dropped, any other gets a task.
AcceptVsock(c) ==
  /\ relay = "listening" /\ stage[c] = "backlog"
  /\ Goes(c, IF request[c].cid = "host" THEN "closed" ELSE "reading")

\* An error of accept ends the task and its listener; the tasks of the
\* connections it accepted go on, and so does the process.
AcceptFails ==
  /\ relay = "listening"
  /\ relay' = "stopped"
  /\ stage' = [c \in Conns |-> IF stage[c] = "backlog" THEN "closed" ELSE stage[c]]
  /\ UNCHANGED request

ApprovedHost(name) == name = <<"kms">>

\* rsplit_once(':') must leave an approved host in front of the port 443.
ValidateKmsHost(authority) ==
  /\ Len(authority) > 1 /\ Last(authority) = "443"
  /\ ApprovedHost(Front(authority))

\* The header is complete and names an approved host, or the task returns.
ReadHeader(c) ==
  /\ stage[c] = "reading"
  /\ \/ ValidateKmsHost(request[c].authority) /\ Goes(c, "dialing")
     \/ Goes(c, "closed")

\* The name given to TcpStream::connect, next to the port 443: the whole
\* authority, which is never empty.
TargetHost(c) == request[c].authority

\* A target that connects is acknowledged and both directions are copied.  One
\* that does not resolve, and any other error, ends the task.
Dial(c) ==
  /\ stage[c] = "dialing"
  /\ \E s \in {"copying", "closed"} :
       (s = "copying" => TargetHost(c) \in Resolvable) /\ Goes(c, s)

\* Fault: the connection is served without a timeout.
RelayNeverTimesOut(c) == FALSE

\* The 3 s are over; the end of a copy, or an error in it, come to the same.
RelayTimeout(c) == stage[c] \in InTask /\ Goes(c, "closed")

RelayConnection(c) == ReadHeader(c) \/ Dial(c)

RelayNext ==
  \/ Bind \/ AcceptFails
  \/ \E c \in Conns : AcceptVsock(c) \/ RelayConnection(c) \/ RelayTimeout(c)

RelayTypeOK ==
  /\ relay \in {"starting", "listening", "stopped", "other"}
  /\ stage \in [Conns -> Stages]
  /\ request \in [Conns -> Requests]

\* "KMS CONNECT target is not an approved hostname": what the relay dials, once
\* validate_kms_host has passed, is a host name that it approves.
DialsApprovedHost ==
  \A c \in Conns : stage[c] = "dialing" => ApprovedHost(TargetHost(c))
=============================================================================
