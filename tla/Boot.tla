-------------------------------- MODULE Boot --------------------------------
(***************************************************************************)
(* The start of the proxy: main.rs up to the accept loop, bootloader.rs,     *)
(* attestation.rs, the tunnels of vsock_bridge.rs, and the calls to KMS that *)
(* go through a tunnel and the host relay.  A step of main that fails        *)
(* panics: main unwinds, and the runtime is dropped.                        *)
(***************************************************************************)
EXTENDS HostRelay

CONSTANTS
  Calls,             \* the connections of Conns the AWS SDK uses
  NoCall,
  MaxAttempts,       \* attempts of the SDK for one KMS request
  FixtureAttempts    \* reads of the LocalStack fixture, 10 in the code

ASSUME BootAssumption ==
  /\ Calls \subseteq Conns /\ NoCall \notin Conns
  /\ MaxAttempts \in Nat \ {0} /\ FixtureAttempts \in Nat \ {0}

VARIABLES
  pc,        \* the next step of main
  build,     \* the cargo features and the profile of the binary
  nitroEnv,  \* NITRO_ENV is set
  tunnels,   \* STARTED of spawn_enclave_tunnels is initialised
  attempts,  \* attempts of the KMS request, or reads of the fixture, so far
  call,      \* the connection of the attempt under way
  secrets,   \* what has been unsealed
  watchers,  \* the spawn_blocking threads: watch_pii_config, watch_auth_file
  sound      \* the surroundings do their part: no file, variable, port, credential,
             \* device or service that main asks for is missing, wrong or silent

bootVars == <<pc, build, nitroEnv, tunnels, attempts, call, secrets, watchers, sound>>

Builds == {"nitro", "kind", "debug"}
Secrets == {"auth", "api_key"}
\* load_proxy_auth_token and build_upstream_client call KMS in the same way.
InKms == {"auth_kms", "key_kms"}
Booting ==
  {"config", "attest", "auth_file", "auth_token", "auth_tunnels", "auth_recipient",
   "admin", "ciphertext", "key_tunnels", "key_recipient", "key_fixture", "signals",
   "listen"} \cup InKms
\* main has panicked, or returned, and the runtime of tokio::main is dropped.
Dropping == {"unwinding", "returning"}
Over == {"panicked", "killed", "exited"}

BootInit ==
  /\ pc = "config" /\ build \in Builds /\ nitroEnv \in BOOLEAN
  /\ tunnels = FALSE /\ attempts = 0 /\ call = NoCall
  /\ secrets = {} /\ watchers = {} /\ sound \in BOOLEAN

Proceeds(next) ==
  /\ pc' = next
  /\ UNCHANGED <<build, nitroEnv, tunnels, attempts, call, secrets, watchers, sound>>

Unseals(secret, next) ==
  /\ pc' = next /\ secrets' = secrets \cup {secret}
  /\ attempts' = 0 /\ call' = NoCall
  /\ UNCHANGED <<build, nitroEnv, tunnels, watchers, sound>>

\* main is over.  A blocking thread that has not started yet is cancelled.
Drops(next) ==
  /\ pc' = next /\ watchers' \in SUBSET watchers
  /\ UNCHANGED <<build, nitroEnv, tunnels, attempts, call, secrets, sound>>

\* Something outside of the program failed, and expect, unwrap or panic! says so.
Panics == ~sound /\ Drops("unwinding")

-----------------------------------------------------------------------------
(***************************************************************************)
(* The steps of main that ask nobody outside.                               *)
(***************************************************************************)

\* The identity variables, the recorder, the configuration and the PII rules.
LoadConfig == pc = "config" /\ (Proceeds("attest") \/ Panics)

\* The attestation document of the signing key: the NSM, or MOCK_PCR0.
AttestKey ==
  /\ pc = "attest"
  /\ Proceeds(IF nitroEnv THEN "auth_token" ELSE "auth_file") \/ Panics

ReadAuthFile == pc = "auth_file" /\ (Unseals("auth", "admin") \/ Panics)

\* A nitro build decodes the ciphertext and unseals it, others read the token.
LoadProxyAuthToken ==
  /\ pc = "auth_token"
  /\ \/ build = "nitro" /\ Proceeds("auth_tunnels")
     \/ build # "nitro" /\ Unseals("auth", "admin")
     \/ Panics

AdminBearerToken == pc = "admin" /\ (Proceeds("ciphertext") \/ Panics)

\* The ciphertext must be there and be Base64; the debug build also needs
\* LOCALSTACK_ENDPOINT, and waits for its fixture.
ReadCiphertext ==
  /\ pc = "ciphertext"
  /\ \/ Proceeds(IF build = "nitro" THEN "key_tunnels" ELSE "key_fixture")
     \/ Panics

FixtureMissing ==
  /\ pc = "ciphertext" /\ build = "debug"
  /\ attempts < FixtureAttempts - 1
  /\ attempts' = attempts + 1
  /\ UNCHANGED <<pc, build, nitroEnv, tunnels, call, secrets, watchers, sound>>

\* The Kind build takes the plaintext from the file.
KindDecrypt ==
  /\ pc = "key_fixture" /\ build = "kind"
  /\ Unseals("api_key", "signals") \/ Panics

\* The debug build asks LocalStack, which need not answer.
LocalStackDecrypt ==
  /\ pc = "key_fixture" /\ build = "debug"
  /\ Unseals("api_key", "signals") \/ Panics

\* shutdown_signal, the watchers, the routers.  watch_pii_config runs if
\* PII_CONFIG_PATH is set, watch_auth_file outside of Nitro mode.
SpawnTasks ==
  /\ pc = "signals" /\ pc' = "listen"
  /\ \E pii \in {{}, {"pii"}} : watchers' = pii \cup IF nitroEnv THEN {} ELSE {"auth"}
  /\ UNCHANGED <<build, nitroEnv, tunnels, attempts, call, secrets, sound>>

\* The proxy port, port 9090, the watchdog, the certificate in Nitro mode.
Listen == pc = "listen" /\ (Proceeds("serving") \/ Panics)

-----------------------------------------------------------------------------
(***************************************************************************)
(* The attested decrypt of decrypt_with_nsm and NitroKmsProvider.           *)
(***************************************************************************)

\* Fault: start_tunnel binds its ports at every decrypt.  The second bind of
\* 127.0.0.1:8000 fails and unwrap panics, with nothing wrong outside.
StartTunnelsAgain ==
  /\ pc \in {"auth_tunnels", "key_tunnels"}
  /\ pc' = IF tunnels THEN "unwinding"
           ELSE IF pc = "auth_tunnels" THEN "auth_recipient" ELSE "key_recipient"
  /\ tunnels' = TRUE
  /\ UNCHANGED <<build, nitroEnv, attempts, call, secrets, watchers, sound>>

\* get_or_init: the first call binds both local ports, later ones find it done.
StartTunnels ==
  /\ pc \in {"auth_tunnels", "key_tunnels"}
  /\ \/ /\ pc' = IF pc = "auth_tunnels" THEN "auth_recipient" ELSE "key_recipient"
        /\ tunnels' = TRUE
        /\ UNCHANGED <<build, nitroEnv, attempts, call, secrets, watchers, sound>>
     \/ ~tunnels /\ Panics

\* The RSA recipient key and the NSM document that carries it.
Recipient ==
  /\ pc \in {"auth_recipient", "key_recipient"}
  /\ \/ Proceeds(IF pc = "auth_recipient" THEN "auth_kms" ELSE "key_kms")
     \/ Panics

\* No credentials in the environment, and nobody behind the tunnel on port 8001.
NoCredentials == pc \in InKms /\ call = NoCall /\ attempts = 0 /\ Panics

\* send() opens a connection: the tunnel accepts it and connects to the relay.
CallKms(c) ==
  /\ pc \in InKms /\ call = NoCall /\ attempts < MaxAttempts
  /\ Reaches(c, SdkRequest)
  /\ attempts' = attempts + 1 /\ call' = c
  /\ UNCHANGED <<pc, build, nitroEnv, tunnels, secrets, watchers, sound>>

\* Fault: the attempts are not counted.
CallRefusedForever ==
  /\ pc \in InKms /\ call = NoCall
  /\ relay # "listening" /\ (relay = "other" => ~sound)
  /\ attempts' = attempts + 1
  /\ UNCHANGED <<pc, build, nitroEnv, tunnels, call, secrets, watchers, sound>>

\* Nobody listens and the tunnel drops the connection, or another program than
\* the relay does, and fails it.
CallRefused ==
  /\ pc \in InKms /\ call = NoCall /\ attempts < MaxAttempts
  /\ relay # "listening" /\ (relay = "other" => ~sound)
  /\ attempts' = attempts + 1
  /\ UNCHANGED <<pc, build, nitroEnv, tunnels, call, secrets, watchers, sound>>

\* The relay copies for the attempt under way, or another program carries it.
Connected ==
  IF relay = "other" THEN attempts < MaxAttempts
                     ELSE call # NoCall /\ stage[call] = "copying"

\* Fault: an error of KMS is not an error of the boot.
KmsAnswersAny ==
  /\ pc \in InKms /\ Connected
  /\ attempts' = 0 /\ call' = NoCall
  /\ pc' = IF pc = "auth_kms" THEN "admin" ELSE "signals"
  /\ UNCHANGED <<build, nitroEnv, tunnels, secrets, watchers, sound>>

\* The response arrives.  A refusal, a response without
\* CiphertextForRecipient or one that does not decrypt ends the boot.
KmsAnswers ==
  /\ pc \in InKms /\ Connected
  /\ \/ pc = "auth_kms" /\ Unseals("auth", "admin")
     \/ pc = "key_kms" /\ Unseals("api_key", "signals")
     \/ Panics

\* The relay closed the connection: the attempt has failed.
CallBroken ==
  /\ call # NoCall /\ stage[call] = "closed"
  /\ call' = NoCall
  /\ UNCHANGED <<pc, build, nitroEnv, tunnels, attempts, secrets, watchers, sound>>

\* The SDK abandons an attempt that takes too long, and may leave the relay's
\* end of the connection behind.
CallAbandoned ==
  /\ call # NoCall /\ stage[call] # "copying"
  /\ call' = NoCall
  /\ UNCHANGED <<pc, build, nitroEnv, tunnels, attempts, secrets, watchers, sound>>

\* No attempt is left: send returns the error of the last one and expect panics.
KmsUnavailable ==
  /\ pc \in InKms /\ call = NoCall /\ attempts = MaxAttempts
  /\ Drops("unwinding")

\* A watcher panics: it cannot watch, or is given rules that do not compile.
\* Nothing else ends its loop.
WatcherPanics ==
  /\ ~sound
  /\ \E w \in watchers : watchers' = watchers \ {w}
  /\ UNCHANGED <<pc, build, nitroEnv, tunnels, attempts, call, secrets, sound>>

LocalStep ==
  \/ LoadConfig \/ AttestKey \/ ReadAuthFile \/ LoadProxyAuthToken \/ AdminBearerToken
  \/ ReadCiphertext \/ FixtureMissing \/ KindDecrypt \/ SpawnTasks \/ Listen
  \/ StartTunnels \/ Recipient \/ NoCredentials \/ CallRefused \/ CallBroken \/ KmsUnavailable

BootTypeOK ==
  /\ pc \in Booting \cup {"serving"} \cup Dropping \cup Over
  /\ build \in Builds /\ nitroEnv \in BOOLEAN /\ tunnels \in BOOLEAN /\ sound \in BOOLEAN
  /\ attempts \in 0 .. IF build = "debug" THEN FixtureAttempts - 1 ELSE MaxAttempts
  /\ call \in Calls \cup {NoCall}
  /\ secrets \subseteq Secrets /\ watchers \subseteq {"pii", "auth"}
=============================================================================
