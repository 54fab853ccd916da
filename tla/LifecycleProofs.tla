-------------------------- MODULE LifecycleProofs ---------------------------
(***************************************************************************)
(* The proxy serves nobody before it has unsealed its secrets, for any      *)
(* number of connections, clients and attempts; a Nitro build never serves   *)
(* anybody through the relay of this repository; and the relay's scan of a   *)
(* CONNECT header is right for every input.                                 *)
(***************************************************************************)
EXTENDS Lifecycle, SequenceTheorems, WellFoundedInduction, TLAPS

\* The provers a step is given to in turn, with their time limits in seconds.
USE SMTT(20), SMTT(30), ZenonT(20), SMTT(40), SMTT(50), SMTT(60)

NitroOnly ==
  {"auth_tunnels", "auth_recipient", "key_tunnels", "key_recipient"} \cup InKms
AuthLoaded ==
  {"admin", "ciphertext", "key_tunnels", "key_recipient", "key_kms", "key_fixture"}
Unsealed == {"signals", "listen", "serving"}

\* What the steps of main rely on: which build they belong to, and what the steps
\* before them have unsealed.
BootOrder ==
  /\ pc \in NitroOnly => build = "nitro"
  /\ pc \in AuthLoaded => "auth" \in secrets
  /\ pc \in Unsealed => secrets = Secrets

\* What validate_kms_host lets through does not resolve, so nothing is copied.
NothingCopied ==
  \A c \in Conns :
    /\ stage[c] # "copying"
    /\ stage[c] = "dialing" => TargetHost(c) \notin Resolvable

\* A Nitro build has its secrets through another program than the relay.
UnsealedElsewhere == build = "nitro" /\ pc \in Unsealed => relay = "other"

LifeInv == TypeOK /\ BootOrder /\ FailClosed /\ NothingCopied /\ UnsealedElsewhere

-----------------------------------------------------------------------------
\* Unsealing the keyring leads to "admin", unsealing the upstream key behind it
\* completes the secrets; a panic unseals nothing.
LEMMA UnsealInv ==
  ASSUME BootTypeOK, NEW secret, NEW next, Unseals(secret, next),
         \/ secret = "auth" /\ next = "admin"
         \/ secret = "api_key" /\ next = "signals" /\ "auth" \in secrets
  PROVE  BootTypeOK' /\ BootOrder' /\ secrets \subseteq secrets'
<1>1. /\ pc' = next /\ secrets' = secrets \cup {secret}
      /\ attempts' = 0 /\ call' = NoCall /\ build' = build
      /\ nitroEnv' = nitroEnv /\ tunnels' = tunnels
      /\ watchers' = watchers /\ sound' = sound
  BY DEF Unseals
<1>2. 0 \in 0 .. IF build = "debug" THEN FixtureAttempts - 1 ELSE MaxAttempts
  BY BootAssumption
<1>3. next \in Booting
  BY DEF Booting
<1>4. secrets' \subseteq Secrets
  BY <1>1, Zenon DEF BootTypeOK, Secrets
<1>5. BootTypeOK'
  BY <1>1, <1>2, <1>3, <1>4 DEF BootTypeOK
<1>6. ASSUME secret = "auth" PROVE BootOrder'
  BY <1>1, <1>6 DEF BootOrder, NitroOnly, AuthLoaded, Unsealed, InKms
<1>7. ASSUME secret = "api_key" PROVE BootOrder'
  <2>1. secrets' = Secrets
    BY <1>1, <1>4, <1>7, Zenon DEF Secrets
  <2>2. pc' = "signals"
    BY <1>1, <1>7
  <2>3. QED
    BY <1>1, <2>1, <2>2 DEF BootOrder, NitroOnly, AuthLoaded, Unsealed, InKms
<1>8. secrets \subseteq secrets'
  BY <1>1
<1>9. QED
  BY <1>5, <1>6, <1>7, <1>8

LEMMA PanicInv ==
  ASSUME BootTypeOK, Panics
  PROVE  BootTypeOK' /\ BootOrder' /\ secrets \subseteq secrets'
  BY DEF Panics, Drops, BootTypeOK, BootOrder, NitroOnly, AuthLoaded, Unsealed, InKms, Dropping

\* The steps of an attested decrypt in front of the call.
LEMMA DecryptInv ==
  ASSUME BootTypeOK, BootOrder, StartTunnels \/ Recipient
  PROVE  BootTypeOK' /\ BootOrder' /\ secrets \subseteq secrets'
<1>1. CASE Panics
  BY <1>1, PanicInv
<1>2. CASE ~Panics
  <2>1. /\ pc' \in {"auth_recipient", "key_recipient", "auth_kms", "key_kms"}
        /\ pc' \in {"key_recipient", "key_kms"} => pc \in {"key_tunnels", "key_recipient"}
        /\ pc \in {"auth_tunnels", "key_tunnels", "auth_recipient", "key_recipient"}
        /\ tunnels' = TRUE \/ tunnels' = tunnels
        /\ UNCHANGED <<build, nitroEnv, attempts, call, secrets, watchers, sound>>
    BY <1>2 DEF StartTunnels, Recipient, Proceeds
  <2>2. build = "nitro" /\ (pc' \in {"key_recipient", "key_kms"} => "auth" \in secrets)
    BY <2>1 DEF BootOrder, NitroOnly, AuthLoaded
  <2>3. BootTypeOK'
    BY <2>1, ZenonT(40) DEF BootTypeOK, Booting, InKms
  <2>4. BootOrder'
    BY <2>1, <2>2 DEF BootOrder, NitroOnly, AuthLoaded, Unsealed, InKms
  <2>5. QED
    BY <2>1, <2>3, <2>4
<1>3. QED
  BY <1>1, <1>2

\* A step of main that nothing else takes part in keeps the boot in order.
LEMMA LocalInv ==
  ASSUME BootTypeOK, BootOrder, LocalStep
  PROVE  BootTypeOK' /\ BootOrder' /\ secrets \subseteq secrets'
<1> USE BootAssumption DEF BootTypeOK, BootOrder, NitroOnly, AuthLoaded, Unsealed,
        Booting, Dropping, Over, Builds, Secrets, InKms, Proceeds, Unseals, Panics, Drops
<1>1. CASE LoadConfig
  BY <1>1, ZenonT(40) DEF LoadConfig
<1>2. CASE AttestKey
  BY <1>2, ZenonT(40) DEF AttestKey
<1>3. CASE ReadAuthFile
  BY <1>3, UnsealInv, PanicInv, ZenonT(40) DEF ReadAuthFile
<1>4. CASE LoadProxyAuthToken
  <2>1. CASE build = "nitro" /\ Proceeds("auth_tunnels")
    BY <1>4, <2>1
  <2>2. CASE Unseals("auth", "admin")
    BY <2>2, UnsealInv, ZenonT(40)
  <2>3. QED
    BY <1>4, <2>1, <2>2, PanicInv, ZenonT(40) DEF LoadProxyAuthToken
<1>5. CASE AdminBearerToken
  BY <1>5, ZenonT(40) DEF AdminBearerToken
<1>6. CASE ReadCiphertext
  BY <1>6, ZenonT(40) DEF ReadCiphertext
<1>7. CASE FixtureMissing
  BY <1>7 DEF FixtureMissing
<1>8. CASE KindDecrypt
  <2>1. "auth" \in secrets
    BY <1>8 DEF KindDecrypt
  <2>2. QED
    BY <1>8, <2>1, UnsealInv, PanicInv, ZenonT(40) DEF KindDecrypt
<1>9. CASE SpawnTasks
  BY <1>9 DEF SpawnTasks
<1>10. CASE Listen
  BY <1>10, ZenonT(40) DEF Listen
<1>11. CASE StartTunnels \/ Recipient
  BY <1>11, DecryptInv
<1>12. CASE NoCredentials
  BY <1>12, PanicInv DEF NoCredentials
<1>13. CASE CallRefused
  BY <1>13 DEF CallRefused
<1>14. CASE CallBroken
  BY <1>14 DEF CallBroken
<1>15. CASE KmsUnavailable
  BY <1>15 DEF KmsUnavailable
<1>16. QED
  BY <1>1, <1>2, <1>3, <1>4, <1>5, <1>6, <1>7, <1>8, <1>9, <1>10, <1>11, <1>12, <1>13,
     <1>14, <1>15, ZenonT(40) DEF LocalStep

\* So do the calls to KMS and their answers.
LEMMA CallInv ==
  ASSUME BootTypeOK, BootOrder, NEW c \in Calls, CallKms(c)
  PROVE  BootTypeOK' /\ BootOrder' /\ secrets' = secrets
  BY BootAssumption DEF CallKms, BootTypeOK, BootOrder, NitroOnly,
     AuthLoaded, Unsealed,
     Booting, Dropping, Over, Builds, Secrets, InKms

LEMMA ReplyInv ==
  ASSUME BootTypeOK, BootOrder, KmsAnswers \/ CallAbandoned \/ LocalStackDecrypt
  PROVE  BootTypeOK' /\ BootOrder' /\ secrets \subseteq secrets'
<1> USE BootAssumption DEF BootTypeOK, BootOrder, NitroOnly, AuthLoaded, Unsealed,
        Booting, Dropping, Over, Builds, Secrets, InKms
<1>1. CASE KmsAnswers
  <2>1. pc = "key_kms" => "auth" \in secrets
    BY DEF BootOrder
  <2>2. QED
    BY <1>1, <2>1, UnsealInv, PanicInv, ZenonT(40) DEF KmsAnswers
<1>2. CASE CallAbandoned
  BY <1>2 DEF CallAbandoned
<1>3. CASE LocalStackDecrypt
  <2>1. "auth" \in secrets
    BY <1>3 DEF LocalStackDecrypt
  <2>2. QED
    BY <1>3, <2>1, UnsealInv, PanicInv, ZenonT(40) DEF LocalStackDecrypt
<1>4. QED
  BY <1>1, <1>2, <1>3

\* The relay stays typed, whoever connects to it.
LEMMA RelayInv ==
  ASSUME RelayTypeOK, RelayNext \/ \E c \in Conns, r \in Requests : Reaches(c, r)
  PROVE  RelayTypeOK'
<1> USE DEF RelayTypeOK, Stages, Goes
<1>1. CASE Bind \/ AcceptFails
  BY <1>1 DEF Bind, AcceptFails
<1>2. ASSUME NEW c \in Conns, AcceptVsock(c) \/ RelayTimeout(c) PROVE RelayTypeOK'
  BY <1>2 DEF AcceptVsock, RelayTimeout
<1>3. ASSUME NEW c \in Conns, RelayConnection(c) PROVE RelayTypeOK'
  BY <1>3 DEF RelayConnection, ReadHeader, Dial
<1>4. ASSUME NEW c \in Conns, NEW r \in Requests, Reaches(c, r) PROVE RelayTypeOK'
  BY <1>4 DEF Reaches
<1>5. QED
  BY <1>1, <1>2, <1>3, <1>4 DEF RelayNext

\* The steps of the server keep its state typed.
LEMMA ServerInv ==
  ASSUME ServingTypeOK,
         \/ InstallHandler \/ Notify \/ AcceptClient(nitroEnv)
         \/ \E c \in Clients : ClientConnects(c) \/ ClientLeaves(c)
         \/ AcceptFailed \/ HandshakeDone \/ HandshakeFails
         \/ BeginDrain \/ WatchdogWakes \/ WatchdogExpires
  PROVE  ServingTypeOK'
<1> USE ServingAssumption DEF ServingTypeOK, connVars
<1>1. CASE InstallHandler \/ Notify
  BY <1>1, Zenon DEF InstallHandler, Notify
<1>2. CASE AcceptClient(nitroEnv) \/ AcceptFailed
  <2>1. Head(backlog) \in Clients /\ Tail(backlog) \in Seq(Clients)
    BY <1>2 DEF AcceptClient, AcceptFailed
  <2>2. QED
    BY <1>2, <2>1 DEF AcceptClient, AcceptFailed
<1>3. ASSUME NEW c \in Clients, ClientConnects(c) \/ ClientLeaves(c)
      PROVE  ServingTypeOK'
  BY <1>3 DEF ClientConnects, ClientLeaves
<1>4. CASE HandshakeDone \/ HandshakeFails
  BY <1>4 DEF HandshakeDone, HandshakeFails
<1>5. CASE BeginDrain
  BY <1>5 DEF BeginDrain
<1>6. CASE WatchdogWakes \/ WatchdogExpires
  BY <1>6 DEF WatchdogWakes, WatchdogExpires
<1>7. QED
  BY <1>1, <1>2, <1>3, <1>4, <1>5, <1>6

\* A step that leaves main alone keeps the boot in order.
LEMMA BootQuiet ==
  ASSUME BootTypeOK, BootOrder, UNCHANGED bootVars
  PROVE  BootTypeOK' /\ BootOrder' /\ secrets' = secrets /\ pc' = pc
  BY DEF bootVars, BootTypeOK, BootOrder

\* The end of main and of the process unseals nothing and forgets nothing.
LEMMA EndInv ==
  ASSUME BootTypeOK, BootOrder, NEW p \in Dropping \cup Over, Proceeds(p) \/ Drops(p)
  PROVE  BootTypeOK' /\ BootOrder' /\ secrets' = secrets /\ build' = build /\ pc' = p
<1> USE DEF Dropping, Over, BootTypeOK, BootOrder, NitroOnly, AuthLoaded, Unsealed, InKms
<1>1. CASE Proceeds(p)
  BY <1>1 DEF Proceeds
<1>2. CASE Drops(p)
  BY <1>2 DEF Drops
<1>3. QED
  BY <1>1, <1>2

\* A watcher that panics leaves main alone.
LEMMA WatcherInv ==
  ASSUME BootTypeOK, BootOrder, WatcherPanics
  PROVE  BootTypeOK' /\ BootOrder' /\ UNCHANGED <<secrets, build, pc>>
  BY DEF WatcherPanics, BootTypeOK, BootOrder

\* The relay dials only what no resolver knows.
LEMMA CopiesNothing ==
  ASSUME RelayTypeOK, NothingCopied,
         RelayNext \/ \E c \in Conns, r \in Requests : Reaches(c, r)
  PROVE  NothingCopied' /\ (relay = "other" <=> relay' = "other")
<1> USE DEF RelayTypeOK, NothingCopied, TargetHost, Goes
<1>1. ASSUME NEW a \in Authorities, ValidateKmsHost(a) PROVE a \notin Resolvable
  BY <1>1 DEF Authorities, ValidateKmsHost, Resolvable
<1>2. \A c \in Conns : request[c].authority \in Authorities
  BY DEF Requests
<1>3. CASE Bind \/ AcceptFails
  BY <1>3 DEF Bind, AcceptFails
<1>4. ASSUME NEW c \in Conns, AcceptVsock(c) \/ RelayTimeout(c)
      PROVE  NothingCopied' /\ relay' = relay
  BY <1>4 DEF AcceptVsock, RelayTimeout
<1>5. ASSUME NEW c \in Conns, ReadHeader(c) PROVE NothingCopied' /\ relay' = relay
  BY <1>1, <1>2, <1>5 DEF ReadHeader
<1>6. ASSUME NEW c \in Conns, Dial(c) PROVE NothingCopied' /\ relay' = relay
  BY <1>6 DEF Dial
<1>7. ASSUME NEW c \in Conns, NEW r \in Requests, Reaches(c, r)
      PROVE  NothingCopied' /\ relay' = relay
  BY <1>7 DEF Reaches
<1>8. QED
  BY <1>3, <1>4, <1>5, <1>6, <1>7 DEF RelayNext, RelayConnection

LEMMA LocalKeepsBuild == LocalStep => build' = build
<1> USE DEF Proceeds, Unseals, Panics, Drops
<1>1. LoadConfig \/ AttestKey \/ ReadAuthFile \/ LoadProxyAuthToken \/ AdminBearerToken
        => build' = build
  BY DEF LoadConfig, AttestKey, ReadAuthFile, LoadProxyAuthToken, AdminBearerToken
<1>2. ReadCiphertext \/ FixtureMissing \/ KindDecrypt \/ SpawnTasks \/ Listen
        => build' = build
  BY DEF ReadCiphertext, FixtureMissing, KindDecrypt, SpawnTasks, Listen
<1>3. StartTunnels \/ Recipient \/ NoCredentials \/ CallRefused \/ CallBroken
        \/ KmsUnavailable => build' = build
  BY DEF StartTunnels, Recipient, NoCredentials, CallRefused, CallBroken, KmsUnavailable
<1>4. QED
  BY <1>1, <1>2, <1>3 DEF LocalStep

\* In a Nitro build only an answer of KMS leads behind the second decrypt.
LEMMA LocalUnseals ==
  ASSUME BootTypeOK, BootOrder, LocalStep, build = "nitro", pc' \in Unsealed
  PROVE  pc \in Unsealed
<1> USE DEF Proceeds, Unseals, Unsealed, Panics, Drops
<1>1. CASE LoadConfig \/ AttestKey \/ ReadAuthFile \/ LoadProxyAuthToken \/ AdminBearerToken
  BY <1>1 DEF LoadConfig, AttestKey, ReadAuthFile, LoadProxyAuthToken, AdminBearerToken
<1>2. CASE ReadCiphertext \/ FixtureMissing \/ KindDecrypt \/ SpawnTasks \/ Listen
  BY <1>2 DEF ReadCiphertext, FixtureMissing, KindDecrypt, SpawnTasks, Listen
<1>3. CASE StartTunnels \/ Recipient \/ NoCredentials \/ CallRefused \/ CallBroken
           \/ KmsUnavailable
  BY <1>3 DEF StartTunnels, Recipient, NoCredentials, CallRefused, CallBroken, KmsUnavailable
<1>4. QED
  BY <1>1, <1>2, <1>3 DEF LocalStep

LEMMA ReplyUnseals ==
  ASSUME BootTypeOK, NothingCopied, UnsealedElsewhere,
         KmsAnswers \/ CallAbandoned \/ LocalStackDecrypt,
         build = "nitro", pc' \in Unsealed
  PROVE  relay = "other"
<1>1. CASE KmsAnswers
  BY <1>1, BootAssumption DEF KmsAnswers, Connected, BootTypeOK, NothingCopied
<1>2. CASE CallAbandoned
  BY <1>2 DEF CallAbandoned, UnsealedElsewhere
<1>3. CASE LocalStackDecrypt
  BY <1>3 DEF LocalStackDecrypt
<1>4. QED
  BY <1>1, <1>2, <1>3

-----------------------------------------------------------------------------
LEMMA LifeStep == LifeInv /\ [Next]_vars => LifeInv'
<1> SUFFICES ASSUME LifeInv, [Next]_vars PROVE LifeInv'
  OBVIOUS
<1>0. /\ RelayTypeOK /\ BootTypeOK /\ ServingTypeOK /\ BootOrder /\ FailClosed
      /\ NothingCopied /\ UnsealedElsewhere
  BY DEF LifeInv, TypeOK
<1>a. UNCHANGED relayVars => RelayTypeOK' /\ NothingCopied' /\ relay' = relay
  BY <1>0 DEF relayVars, RelayTypeOK, NothingCopied, TargetHost
<1>b. ASSUME secrets \subseteq secrets', UNCHANGED servingVars, BootTypeOK'
      PROVE  ServingTypeOK' /\ FailClosed'
  <2>1. ServingTypeOK'
    BY <1>0, <1>b DEF servingVars, ServingTypeOK
  <2>2. FailClosed'
    BY <1>0, <1>b, ZenonT(40) DEF servingVars, FailClosed, BootTypeOK
  <2>3. QED
    BY <2>1, <2>2
<1>c. ASSUME pc = "serving", UNCHANGED bootVars PROVE FailClosed'
  BY <1>0, <1>c DEF bootVars, FailClosed, BootOrder, Unsealed
<1>d. ASSUME pc' = pc, build' = build, relay = "other" => relay' = "other"
      PROVE  UnsealedElsewhere'
  BY <1>0, <1>d DEF UnsealedElsewhere
<1>e. UNCHANGED bootVars => pc' = pc /\ build' = build
  BY DEF bootVars
<1>1. CASE BootStep
  <2>1. LocalStep /\ UNCHANGED relayVars /\ UNCHANGED servingVars
    BY <1>1 DEF BootStep
  <2>2. BootTypeOK' /\ BootOrder' /\ secrets \subseteq secrets'
    BY <1>0, <2>1, LocalInv
  <2>3. UnsealedElsewhere'
    <3>1. build' = build
      BY <2>1, LocalKeepsBuild
    <3>2. QED
      BY <1>0, <1>a, <2>1, <3>1, LocalUnseals DEF UnsealedElsewhere
  <2>4. QED
    BY <1>a, <1>b, <2>1, <2>2, <2>3 DEF LifeInv, TypeOK
<1>2. CASE KmsCall
  <2>1. PICK c \in Calls : CallKms(c)
    BY <1>2 DEF KmsCall
  <2>2. BootTypeOK' /\ BootOrder' /\ secrets' = secrets
    BY <1>0, <2>1, CallInv
  <2>3. \E d \in Conns, r \in Requests : Reaches(d, r)
    <3>1. SdkRequest \in Requests
      BY DEF SdkRequest, Requests, Authorities
    <3>2. c \in Conns /\ Reaches(c, SdkRequest)
      BY <2>1, BootAssumption DEF CallKms
    <3>3. QED
      BY <3>1, <3>2, Zenon
  <2>4. RelayTypeOK' /\ NothingCopied' /\ (relay = "other" <=> relay' = "other")
    BY <1>0, <2>3, RelayInv, CopiesNothing
  <2>5. pc' = pc /\ build' = build
    BY <2>1 DEF CallKms
  <2>6. UnsealedElsewhere'
    BY <1>d, <2>4, <2>5
  <2>7. QED
    BY <1>2, <1>b, <2>2, <2>4, <2>6 DEF KmsCall, LifeInv, TypeOK
<1>3. CASE KmsReply \/ Abandon
  <2>1. /\ KmsAnswers \/ CallAbandoned \/ LocalStackDecrypt
        /\ UNCHANGED relayVars /\ UNCHANGED servingVars
    BY <1>3 DEF KmsReply, Abandon
  <2>2. BootTypeOK' /\ BootOrder' /\ secrets \subseteq secrets'
    BY <1>0, <2>1, ReplyInv
  <2>3. UnsealedElsewhere'
    <3>1. build' = build
      BY <2>1 DEF KmsAnswers, CallAbandoned, LocalStackDecrypt, Unseals, Panics, Drops
    <3>2. QED
      BY <1>0, <1>a, <2>1, <3>1, ReplyUnseals DEF UnsealedElsewhere
  <2>4. QED
    BY <1>a, <1>b, <2>1, <2>2, <2>3 DEF LifeInv, TypeOK
<1>4. CASE RelayStep \/ Stray
  <2>1. RelayNext \/ \E c \in Conns, r \in Requests : Reaches(c, r)
    BY <1>4 DEF RelayStep, Stray
  <2>2. RelayTypeOK' /\ NothingCopied' /\ (relay = "other" <=> relay' = "other")
    BY <1>0, <2>1, RelayInv, CopiesNothing
  <2>3. UNCHANGED bootVars /\ UNCHANGED servingVars
    BY <1>4 DEF RelayStep, Stray
  <2>4. QED
    BY <1>0, <1>b, <1>d, <1>e, <2>2, <2>3, BootQuiet DEF LifeInv, TypeOK
<1>5. CASE Handled \/ (Signal /\ Notify)
  <2>1. /\ UNCHANGED relayVars /\ UNCHANGED bootVars /\ (InstallHandler \/ Notify)
        /\ UNCHANGED <<handshake, open>>
    BY <1>5 DEF Handled, Signal, InstallHandler, Notify, connVars
  <2>2. FailClosed'
    BY <1>0, <2>1 DEF FailClosed, bootVars
  <2>3. QED
    BY <1>0, <1>a, <1>d, <1>e, <2>1, <2>2, ServerInv, BootQuiet DEF LifeInv, TypeOK
<1>6. CASE \/ Signal /\ Proceeds("killed") /\ UNCHANGED servingVars
           \/ ForceExit \/ MainReturns \/ RuntimeDropped
  <2>1. /\ UNCHANGED relayVars /\ UNCHANGED servingVars
        /\ \E p \in Dropping \cup Over : Proceeds(p) \/ Drops(p)
    BY <1>6 DEF Signal, ForceExit, MainReturns, RuntimeDropped, Dropping, Over
  <2>2. PICK p \in Dropping \cup Over : Proceeds(p) \/ Drops(p)
    BY <2>1
  <2>3. BootTypeOK' /\ BootOrder' /\ secrets' = secrets /\ build' = build /\ pc' = p
    BY <1>0, <2>2, EndInv
  <2>4. UnsealedElsewhere'
    BY <2>3 DEF UnsealedElsewhere, Unsealed, Dropping, Over
  <2>5. QED
    BY <1>a, <1>b, <2>1, <2>3, <2>4 DEF LifeInv, TypeOK
<1>7. CASE AcceptStep \/ ClientStep \/ DrainStep \/ WatchdogStep
  <2>1. pc = "serving" /\ UNCHANGED relayVars /\ UNCHANGED bootVars
    BY <1>7 DEF AcceptStep, ClientStep, DrainStep, WatchdogStep
  <2>2. ServingTypeOK'
    BY <1>0, <1>7, ServerInv DEF AcceptStep, ClientStep, DrainStep, WatchdogStep
  <2>3. QED
    BY <1>0, <1>a, <1>c, <1>d, <1>e, <2>1, <2>2, BootQuiet DEF LifeInv, TypeOK
<1>8. CASE WatcherStep
  <2>1. WatcherPanics /\ UNCHANGED relayVars /\ UNCHANGED servingVars
    BY <1>8 DEF WatcherStep
  <2>2. BootTypeOK' /\ BootOrder' /\ UNCHANGED <<secrets, build, pc>>
    BY <1>0, <2>1, WatcherInv
  <2>3. QED
    BY <1>a, <1>b, <1>d, <2>1, <2>2 DEF LifeInv, TypeOK
<1>9. CASE Rests \/ UNCHANGED vars
  <2>1. UNCHANGED relayVars /\ UNCHANGED bootVars /\ UNCHANGED servingVars
    BY <1>9 DEF Rests, vars
  <2>2. QED
    BY <1>0, <1>a, <1>b, <1>d, <1>e, <2>1, BootQuiet DEF LifeInv, TypeOK
<1>10. QED
  BY <1>1, <1>2, <1>3, <1>4, <1>5, <1>6, <1>7, <1>8, <1>9 DEF Next, Signal

LEMMA LifeInit == Init => LifeInv
<1> SUFFICES ASSUME Init PROVE LifeInv
  OBVIOUS
<1>1. RelayTypeOK
  <2>1. SdkRequest \in Requests
    BY DEF SdkRequest, Requests, Authorities
  <2>2. QED
    BY <2>1 DEF Init, RelayInit, RelayTypeOK, Stages
<1>2. BootTypeOK
  <2>1. 0 \in 0 .. IF build = "debug" THEN FixtureAttempts - 1 ELSE MaxAttempts
    BY BootAssumption
  <2>2. QED
    BY <2>1, Zenon DEF Init, BootInit, BootTypeOK, Booting
<1>3. BootOrder
  BY DEF Init, BootInit, BootOrder, NitroOnly, AuthLoaded, Unsealed, InKms
<1>4. ServingTypeOK
  <2>1. <<>> \in Seq(Clients)
    OBVIOUS
  <2>2. QED
    BY <2>1, Zenon DEF Init, ServingInit, ServingTypeOK
<1>5. FailClosed
  BY DEF Init, ServingInit, FailClosed
<1>6. NothingCopied /\ UnsealedElsewhere
  BY DEF Init, RelayInit, BootInit, NothingCopied, UnsealedElsewhere, Unsealed
<1>7. QED
  BY <1>1, <1>2, <1>3, <1>4, <1>5, <1>6 DEF LifeInv, TypeOK

LEMMA LifeAlways == Spec => []LifeInv
  BY LifeInit, LifeStep, PTL DEF Spec

\* The types of the whole life of the process hold for any number of
\* connections, clients and attempts; in particular no run of KMS failures makes
\* more attempts than the SDK is allowed.
THEOREM LifeTypeCorrect == Spec => []TypeOK
<1>1. LifeInv => TypeOK
  BY DEF LifeInv
<1>2. QED
  BY <1>1, LifeAlways, PTL

\* No client is ever accepted by a proxy that has not loaded its keyring and
\* decrypted its upstream key, in every build and mode and for every order of
\* failures, signals and connections.
THEOREM ServesOnlyUnsealed == Spec => []FailClosed
<1>1. LifeInv => FailClosed
  BY DEF LifeInv
<1>2. QED
  BY <1>1, LifeAlways, PTL

\* A Nitro build that serves clients has unsealed its secrets through another
\* program on VSOCK port 8000: the relay of this repository passes the whole
\* authority to TcpStream::connect, never gets to copy_bidirectional, and every
\* boot through it ends in a panic, for any number of connections and attempts.
THEOREM NitroServesWithoutRelay ==
  Spec => [](build = "nitro" /\ pc = "serving" => relay = "other")
<1>1. LifeInv => (build = "nitro" /\ pc = "serving" => relay = "other")
  BY DEF LifeInv, UnsealedElsewhere, Unsealed
<1>2. QED
  BY <1>1, LifeAlways, PTL

-----------------------------------------------------------------------------
(***************************************************************************)
(* The scan of a CONNECT header.                                            *)
(***************************************************************************)
\* Every set of natural numbers has a least element.
LEMMA MinIs ==
  ASSUME NEW T \in SUBSET Nat, T # {}
  PROVE  Min(T) \in T /\ \A m \in T : Min(T) <= m
<1> DEFINE R == OpToRel(<, Nat)
<1>1. IsWellFoundedOn(R, Nat)
  BY NatLessThanWellFounded, Zenon
<1>2. PICK n \in T : \A m \in T : ~(<<m, n>> \in R)
  <2> HIDE DEF R
  <2> QED
    BY <1>1, WFMin, ZenonT(40)
<1>3. \A m \in T : m < n => <<m, n>> \in R
  BY DEF OpToRel
<1> HIDE DEF R
<1>4. \A m \in T : ~(m < n)
  BY <1>2, <1>3, ZenonT(40)
<1>5. \A m \in T : m \in Nat /\ n \in Nat
  OBVIOUS
<1>6. \A m \in T : n <= m
  BY <1>4, <1>5
<1>7. QED
  BY <1>6, Zenon DEF Min

LEMMA MinOnly ==
  ASSUME NEW T \in SUBSET Nat, NEW n \in T, \A m \in T : n <= m
  PROVE  Min(T) = n
<1>1. Min(T) \in T /\ Min(T) <= n
  BY MinIs
<1>2. n <= Min(T) /\ n \in Nat /\ Min(T) \in Nat
  BY <1>1, Zenon
<1> QED
  BY <1>1, <1>2

-----------------------------------------------------------------------------
(***************************************************************************)
(* What the scan finds from byte n on in state s: the first m at which the   *)
(* bytes that led to s and the bytes read since end with a blank line.       *)
(***************************************************************************)
BlankAt(input, n, s, m) ==
  \/ /\ m >= n + 4
     /\ input[m - 3] = "cr" /\ input[m - 2] = "lf" /\ input[m - 1] = "cr" /\ input[m] = "lf"
  \/ /\ m = n + 3 /\ s \in {1, 3}
     /\ input[m - 2] = "lf" /\ input[m - 1] = "cr" /\ input[m] = "lf"
  \/ m = n + 2 /\ s = 2 /\ input[m - 1] = "cr" /\ input[m] = "lf"
  \/ m = n + 1 /\ s = 3 /\ input[m] = "lf"

\* The limit is looked at before each byte, so it is passed over from behind it.
Limit(input, n) == IF n <= MaxHeaders THEN MaxHeaders ELSE Len(input) + 1

Blanks(input, n, s) ==
  {m \in n + 1 .. Len(input) : m <= Limit(input, n) /\ BlankAt(input, n, s, m)}

Outcome(ends, limit, len) ==
  IF ends # {} THEN [verdict |-> "header", read |-> Min(ends)]
  ELSE IF len >= limit THEN [verdict |-> "too_long", read |-> limit]
  ELSE [verdict |-> "eof", read |-> len]

Outlook(input, n, s) == Outcome(Blanks(input, n, s), Limit(input, n), Len(input))

\* One turn of the loop of read_connect_target, with what the next turns give.
Turn(input, n, s, g) ==
  CASE n = MaxHeaders -> [verdict |-> "too_long", read |-> n]
    [] n # MaxHeaders /\ n = Len(input) -> [verdict |-> "eof", read |-> n]
    [] OTHER -> LET next == Step(s, input[n + 1])
                IN  IF next = Found THEN [verdict |-> "header", read |-> n + 1]
                                    ELSE g[n + 1][next]

LEMMA StepIs ==
  ASSUME NEW s \in 0 .. 3, NEW b \in Bytes
  PROVE  /\ Step(s, b) \in 0 .. 4
         /\ Step(s, b) = 4 <=> s = 3 /\ b = "lf"
         /\ Step(s, b) = 3 <=> s = 2 /\ b = "cr"
         /\ Step(s, b) = 2 <=> s = 1 /\ b = "lf"
         /\ Step(s, b) = 1 <=> s # 2 /\ b = "cr"
<1>1. s = 0 \/ s = 1 \/ s = 2 \/ s = 3
  OBVIOUS
<1>2. CASE s = 0
  BY <1>2 DEF Step, Bytes, Found
<1>3. CASE s = 1
  BY <1>3 DEF Step, Bytes, Found
<1>4. CASE s = 2
  BY <1>4 DEF Step, Bytes, Found
<1>5. CASE s = 3
  BY <1>5 DEF Step, Bytes, Found
<1> QED
  BY <1>1, <1>2, <1>3, <1>4, <1>5

\* The state stands for what was read: one byte more, and the blank lines ahead
\* are the same.
LEMMA StateSuffices ==
  ASSUME NEW input \in Seq(Bytes), NEW n \in Nat, n < Len(input),
         NEW s \in 0 .. 3, NEW t \in 0 .. 3, t = Step(s, input[n + 1]),
         NEW m \in Nat, m <= Len(input), m >= n + 2
  PROVE  BlankAt(input, n, s, m) <=> BlankAt(input, n + 1, t, m)
<1>0. input[n + 1] \in Bytes
  OBVIOUS
<1>1. /\ s = 3 => input[n + 1] # "lf"
      /\ t = 3 <=> s = 2 /\ input[n + 1] = "cr"
      /\ t = 2 <=> s = 1 /\ input[n + 1] = "lf"
      /\ t = 1 <=> s # 2 /\ input[n + 1] = "cr"
  BY <1>0, StepIs
<1>2. CASE m >= n + 5
  BY <1>2 DEF BlankAt
<1>3. CASE m = n + 4
  <2>1. m - 3 = n + 1 /\ ~(m >= n + 1 + 4) /\ m = n + 1 + 3 /\ m # n + 1 + 2 /\ m # n + 1 + 1
        /\ m >= n + 4 /\ m # n + 3 /\ m # n + 2 /\ m # n + 1
    BY <1>3
  <2>2. t \in {1, 3} <=> input[n + 1] = "cr"
    BY <1>1
  <2> QED
    BY <2>1, <2>2 DEF BlankAt
<1>4. CASE m = n + 3
  <2>1. m - 2 = n + 1 /\ ~(m >= n + 1 + 4) /\ m # n + 1 + 3 /\ m = n + 1 + 2 /\ m # n + 1 + 1
        /\ ~(m >= n + 4) /\ m = n + 3 /\ m # n + 2 /\ m # n + 1
    BY <1>4
  <2>2. t = 2 <=> s \in {1, 3} /\ input[n + 1] = "lf"
    BY <1>1
  <2> QED
    BY <2>1, <2>2 DEF BlankAt
<1>5. CASE m = n + 2
  <2>1. m - 1 = n + 1 /\ ~(m >= n + 1 + 4) /\ m # n + 1 + 3 /\ m # n + 1 + 2 /\ m = n + 1 + 1
        /\ ~(m >= n + 4) /\ m # n + 3 /\ m = n + 2 /\ m # n + 1
    BY <1>5
  <2> QED
    BY <1>1, <2>1 DEF BlankAt
<1> QED
  BY <1>2, <1>3, <1>4, <1>5

\* The loop gives the outlook, if its next turns do.
LEMMA TurnIs ==
  ASSUME NEW input \in Seq(Bytes), NEW n \in 0 .. Len(input), NEW s \in 0 .. 3, NEW g,
         n < Len(input) => \A t \in 0 .. 3 : g[n + 1][t] = Outlook(input, n + 1, t)
  PROVE  Turn(input, n, s, g) = Outlook(input, n, s)
<1> DEFINE ends == Blanks(input, n, s)
           limit == Limit(input, n)
<1>0. /\ Len(input) \in Nat /\ n \in Nat /\ n <= Len(input) /\ MaxHeaders \in Nat
      /\ limit \in Nat
  BY RelayAssumption DEF Limit
<1>1. CASE n = MaxHeaders
  <2>1. limit = n
    BY <1>0, <1>1 DEF Limit
  <2>2. \A m \in n + 1 .. Len(input) : ~(m <= limit)
    BY <1>0, <2>1
  <2>3. ends = {}
    BY <2>2, Zenon DEF Blanks
  <2>4. Len(input) >= limit
    BY <1>0, <2>1
  <2>5. Outlook(input, n, s) = [verdict |-> "too_long", read |-> n]
    BY <2>1, <2>3, <2>4, Zenon DEF Outlook, Outcome
  <2> QED
    BY <1>1, <2>5, Zenon DEF Turn
<1>2. CASE n # MaxHeaders /\ n = Len(input)
  <2>1. \A m \in n + 1 .. Len(input) : FALSE
    BY <1>0, <1>2
  <2>2. ends = {}
    BY <2>1, Zenon DEF Blanks
  <2>3. ~(Len(input) >= limit)
    BY <1>0, <1>2 DEF Limit
  <2>4. Outlook(input, n, s) = [verdict |-> "eof", read |-> n]
    BY <1>2, <2>2, <2>3, Zenon DEF Outlook, Outcome
  <2> QED
    BY <1>2, <2>4, Zenon DEF Turn
<1>3. CASE n # MaxHeaders /\ n # Len(input)
  <2>0. n < Len(input) /\ n + 1 \in Nat /\ n + 1 <= limit
    BY <1>0, <1>3 DEF Limit
  <2>1. PICK b \in Bytes : b = input[n + 1]
    BY <1>0, <2>0
  <2>2. PICK t \in 0 .. 4 : t = Step(s, b)
    BY StepIs, Zenon
  <2>3. Turn(input, n, s, g) = IF t = 4 THEN [verdict |-> "header", read |-> n + 1]
                                        ELSE g[n + 1][t]
    BY <1>3, <2>1, <2>2, Zenon DEF Turn, Found
  <2>4. limit = Limit(input, n + 1)
    BY <1>0, <1>3 DEF Limit
  <2>5. n + 1 \in ends <=> t = 4
    <3>1. t = 4 <=> s = 3 /\ b = "lf"
      BY <2>2, StepIs, ZenonT(40)
    <3>2. BlankAt(input, n, s, n + 1) <=> s = 3 /\ b = "lf"
      BY <1>0, <2>1 DEF BlankAt
    <3>3. n + 1 \in n + 1 .. Len(input)
      BY <1>0, <2>0
    <3> QED
      BY <2>0, <3>1, <3>2, <3>3, ZenonT(40) DEF Blanks
  <2>6. CASE t = 4
    <3>1. n + 1 \in ends
      BY <2>5, <2>6, ZenonT(40)
    <3>2. \A m \in ends : m \in Nat /\ n + 1 <= m
      BY <1>0 DEF Blanks
    <3>3. ends \in SUBSET Nat
      BY <3>2, Zenon
    <3> HIDE DEF ends
    <3>4. Min(ends) = n + 1
      BY <3>1, <3>2, <3>3, MinOnly, ZenonT(40)
    <3>5. Outcome(ends, limit, Len(input)) = [verdict |-> "header", read |-> n + 1]
      BY <3>1, <3>4, ZenonT(40) DEF Outcome
    <3> QED
      BY <2>3, <2>6, <3>5, ZenonT(40) DEF Outlook, ends
  <2>7. CASE t # 4
    <3>1. t \in 0 .. 3
      BY <2>7
    <3>2. n + 1 \notin ends
      BY <2>5, <2>7, ZenonT(40)
    <3>3. ASSUME NEW m \in Nat, m <= Len(input), m >= n + 2
          PROVE  BlankAt(input, n, s, m) <=> BlankAt(input, n + 1, t, m)
      BY <1>0, <2>0, <2>1, <2>2, <3>1, <3>3, StateSuffices, ZenonT(40)
    <3>4. ASSUME NEW m
          PROVE  m \in ends <=> m \in Blanks(input, n + 1, t)
      <4>1. CASE m \in Nat /\ m <= Len(input) /\ m >= n + 2
        <5>1. m \in n + 1 .. Len(input) /\ m \in n + 1 + 1 .. Len(input)
          BY <1>0, <4>1
        <5> QED
          BY <2>4, <3>3, <4>1, <5>1, ZenonT(40) DEF Blanks
      <4>2. CASE ~(m \in Nat /\ m <= Len(input) /\ m >= n + 2)
        <5>1. m \notin n + 1 + 1 .. Len(input) /\ (m \in n + 1 .. Len(input) => m = n + 1)
          BY <1>0, <4>2
        <5> QED
          BY <3>2, <5>1, ZenonT(40) DEF Blanks
      <4> QED
        BY <4>1, <4>2, ZenonT(40)
    <3>5. ends = Blanks(input, n + 1, t)
      BY <3>4, Zenon
    <3>6. Outlook(input, n, s) = Outlook(input, n + 1, t)
      BY <2>4, <3>5, ZenonT(40) DEF Outlook
    <3> QED
      BY <2>0, <2>3, <2>7, <3>1, <3>6, ZenonT(40)
  <2> QED
    BY <2>6, <2>7, Zenon
<1> QED
  BY <1>1, <1>2, <1>3, Zenon

\* The recursive function of the scan.
Scans(input, g) ==
  g = [n \in 0 .. Len(input) |-> [s \in 0 .. 3 |-> Turn(input, n, s, g)]]

LEMMA ScanExists ==
  ASSUME NEW input \in Seq(Bytes)
  PROVE  \E g : Scans(input, g)
<1> DEFINE g == [n \in 0 .. Len(input) |-> [s \in 0 .. 3 |-> Outlook(input, n, s)]]
<1>1. ASSUME NEW n \in 0 .. Len(input), NEW s \in 0 .. 3
      PROVE  Turn(input, n, s, g) = Outlook(input, n, s)
  <2>1. n < Len(input) => n + 1 \in 0 .. Len(input)
    OBVIOUS
  <2>2. n < Len(input) => \A t \in 0 .. 3 : g[n + 1][t] = Outlook(input, n + 1, t)
    BY <2>1, Zenon
  <2> HIDE DEF g
  <2> QED
    BY <2>2, TurnIs, ZenonT(40)
<1>2. ASSUME NEW n \in 0 .. Len(input)
      PROVE  [s \in 0 .. 3 |-> Turn(input, n, s, g)] = [s \in 0 .. 3 |-> Outlook(input, n, s)]
  <2> HIDE DEF g
  <2> QED
    BY <1>1, Zenon
<1>3. [n \in 0 .. Len(input) |-> [s \in 0 .. 3 |-> Turn(input, n, s, g)]] = g
  BY <1>2, Zenon
<1> HIDE DEF g
<1> QED
  BY <1>3, Zenon DEF Scans

\* Whatever satisfies the recursion gives the outlook, from the last byte back.
LEMMA ScanIs ==
  ASSUME NEW input \in Seq(Bytes), NEW g, Scans(input, g)
  PROVE  \A n \in 0 .. Len(input) : \A s \in 0 .. 3 : g[n][s] = Outlook(input, n, s)
<1> DEFINE Right(n) == \A s \in 0 .. 3 : g[n][s] = Outlook(input, n, s)
           Wrong == {k \in Nat : k <= Len(input) /\ ~Right(Len(input) - k)}
<1>0. Len(input) \in Nat
  OBVIOUS
<1>1. \A n \in 0 .. Len(input) : \A s \in 0 .. 3 : g[n][s] = Turn(input, n, s, g)
  <2>1. \A n \in 0 .. Len(input) : g[n] = [s \in 0 .. 3 |-> Turn(input, n, s, g)]
    BY Zenon DEF Scans
  <2> QED
    BY <2>1, Zenon
<1>2. ASSUME NEW n \in 0 .. Len(input), n < Len(input) => Right(n + 1)
      PROVE  Right(n)
  BY <1>1, <1>2, TurnIs, ZenonT(40)
<1> HIDE DEF Right
<1>3. ASSUME NEW k \in Wrong, \A j \in Wrong : k <= j
      PROVE  FALSE
  <2>1. PICK n \in 0 .. Len(input) : n = Len(input) - k /\ ~Right(n)
    BY <1>0, <1>3
  <2>2. n < Len(input) => k - 1 \in Nat /\ k - 1 <= Len(input) /\ Len(input) - (k - 1) = n + 1
                          /\ ~(k <= k - 1)
    BY <1>0, <2>1
  <2>3. n < Len(input) => Right(n + 1)
    BY <1>3, <2>2, ZenonT(40)
  <2> QED
    BY <1>2, <2>1, <2>3, ZenonT(40)
<1>4. Wrong = {}
  <2>1. Wrong \in SUBSET Nat
    OBVIOUS
  <2> HIDE DEF Wrong
  <2> QED
    BY <1>3, <2>1, MinIs, ZenonT(40)
<1>5. ASSUME NEW n \in 0 .. Len(input)
      PROVE  Right(n)
  <2>1. Len(input) - n \in Nat /\ Len(input) - n <= Len(input)
        /\ Len(input) - (Len(input) - n) = n
    BY <1>0
  <2> QED
    BY <1>4, <2>1, ZenonT(40)
<1> QED
  BY <1>5, Zenon DEF Right

\* At the start, the blank lines ahead are those of the input.
LEMMA OutlookAtStart ==
  ASSUME NEW input \in Seq(Bytes)
  PROVE  Outlook(input, 0, 0) = FirstBlankLine(input)
<1> DEFINE ends == {n \in 4 .. Len(input) : n <= MaxHeaders
                      /\ SubSeq(input, n - 3, n) = <<"cr", "lf", "cr", "lf">>}
<1>0. Len(input) \in Nat /\ Limit(input, 0) = MaxHeaders
  BY RelayAssumption DEF Limit
<1>1. ASSUME NEW m \in 4 .. Len(input)
      PROVE  SubSeq(input, m - 3, m) = <<"cr", "lf", "cr", "lf">>
               <=> /\ input[m - 3] = "cr" /\ input[m - 2] = "lf"
                   /\ input[m - 1] = "cr" /\ input[m] = "lf"
  <2> DEFINE u == SubSeq(input, m - 3, m)
  <2>1. /\ u \in Seq(Bytes) /\ Len(u) = 4 /\ u[1] = input[m - 3] /\ u[2] = input[m - 2]
        /\ u[3] = input[m - 1] /\ u[4] = input[m]
    OBVIOUS
  <2> HIDE DEF u
  <2>2. u = <<"cr", "lf", "cr", "lf">> <=> u[1] = "cr" /\ u[2] = "lf" /\ u[3] = "cr" /\ u[4] = "lf"
    BY <2>1
  <2> QED
    BY <2>1, <2>2, ZenonT(40) DEF u
<1>2. ASSUME NEW m
      PROVE  m \in ends <=> m \in Blanks(input, 0, 0)
  <2>1. CASE m \in 4 .. Len(input)
    <3>1. BlankAt(input, 0, 0, m) <=> /\ input[m - 3] = "cr" /\ input[m - 2] = "lf"
                                      /\ input[m - 1] = "cr" /\ input[m] = "lf"
      BY <1>0, <2>1 DEF BlankAt
    <3>2. m \in 0 + 1 .. Len(input)
      BY <2>1
    <3> QED
      BY <1>0, <1>1, <2>1, <3>1, <3>2, ZenonT(40) DEF Blanks
  <2>2. CASE m \notin 4 .. Len(input)
    <3>1. m \in 0 + 1 .. Len(input) => ~BlankAt(input, 0, 0, m)
      BY <1>0, <2>2 DEF BlankAt
    <3> QED
      BY <2>2, <3>1, ZenonT(40) DEF Blanks
  <2> QED
    BY <2>1, <2>2, ZenonT(40)
<1>3. ends = Blanks(input, 0, 0)
  BY <1>2, Zenon
<1> HIDE DEF ends
<1>4. Outlook(input, 0, 0) = Outcome(ends, MaxHeaders, Len(input))
  BY <1>0, <1>3, ZenonT(40) DEF Outlook
<1>5. FirstBlankLine(input) = Outcome(ends, MaxHeaders, Len(input))
  BY Zenon DEF FirstBlankLine, Outcome, ends
<1> QED
  BY <1>4, <1>5, ZenonT(40)

\* read_connect_target stops right behind the first blank line of any input, and
\* refuses exactly those whose blank line does not come within the limit.
THEOREM ReadsToBlankLine ==
  \A input \in Seq(Bytes) : ReadConnectTarget(input) = FirstBlankLine(input)
<1> SUFFICES ASSUME NEW input \in Seq(Bytes)
             PROVE  ReadConnectTarget(input) = FirstBlankLine(input)
  OBVIOUS
<1>1. ReadConnectTarget(input) = (CHOOSE g : Scans(input, g))[0][0]
  BY Zenon DEF ReadConnectTarget, Scans, Turn
<1>2. PICK g : Scans(input, g) /\ g = CHOOSE h : Scans(input, h)
  BY ScanExists, Zenon
<1>3. 0 \in 0 .. Len(input) /\ 0 \in 0 .. 3
  OBVIOUS
<1>4. g[0][0] = Outlook(input, 0, 0)
  BY <1>2, <1>3, ScanIs, ZenonT(40)
<1> QED
  BY <1>1, <1>2, <1>4, OutlookAtStart, ZenonT(40)

\* The check of the scan over bounded inputs holds for every bound.
THEOREM HeaderScans == Spec => []HeaderScanExact
<1>1. ASSUME NEW input \in BoundedSeq(Bytes, MaxInput)
      PROVE  input \in Seq(Bytes)
  <2>1. PICK n \in 0 .. MaxInput : input \in [1 .. n -> Bytes]
    BY Zenon DEF BoundedSeq, SeqOf
  <2>2. n \in Nat
    BY RelayAssumption
  <2> QED
    BY <2>1, <2>2, SeqDef
<1>2. HeaderScanExact
  BY <1>1, ReadsToBlankLine, Zenon DEF HeaderScanExact
<1> QED
  BY <1>2, PTL

=============================================================================
