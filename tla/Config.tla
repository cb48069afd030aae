------------------------------- MODULE Config -------------------------------
(***************************************************************************)
(* Configuration (internal/config config.go): defaults, then the reviewed    *)
(* file, then the allowlisted environment, validated as a whole; and the      *)
(* identity each connection of the process gets from the result (app.go Run,  *)
(* scope.go and relay.go).  A layer maps the keys it sets to their values; a   *)
(* text stands for itself, a duration for its seconds.                        *)
(***************************************************************************)
EXTENDS Envelope

CONSTANTS
  Rejected,       \* what loading a refused configuration gives
  Unreadable,     \* a file that cannot be read or is not YAML
  WellFormed,     \* texts that match the pattern of the key they are given to
  HttpUrls, HttpsUrls,  \* absolute URLs without credentials, by scheme
  Documents       \* the envelope each text in its place decodes to

ASSUME DocumentAssumption == \A t \in DOMAIN Documents : Documents[t] \in Document

MTLS ==
  {"identity.mtls.cert_file", "identity.mtls.key_file", "identity.mtls.ca_file",
   "identity.mtls.server_name"}
Modes == {"disabled", "development", "mtls"}

EnvOverrides ==
  [CONTROL_ADDRESS |-> "control.address", IDENTITY_MODE |-> "identity.mode",
   LAUNCH_SECRET |-> "launch.secret", BACKEND |-> "launch.backend",
   LAUNCH_KEY |-> "launch.launch_key", POD_UID |-> "launch.pod_uid",
   LAUNCH_ENVELOPE |-> "launch.envelope", MODEL_PROXY_URL |-> "model_proxy.url",
   MODEL_PROXY_TOKEN |-> "model_proxy.token", MCP_ADDRESS |-> "mcp.address",
   KNOWLEDGE_ADDRESS |-> "knowledge.address"]

\* Facts of the Job and of its placement, never in the file.
EnvironmentOnly ==
  {"launch.backend", "launch.launch_key", "launch.pod_uid", "launch.envelope",
   "launch.secret", "model_proxy.url", "model_proxy.token"}

\* A layer from its pairs, and one layer over another.
Layer(pairs) ==
  [k \in {p[1] : p \in pairs} |-> (CHOOSE p \in pairs : p[1] = k)[2]]

Over(upper, lower) ==
  [k \in DOMAIN upper \cup DOMAIN lower |->
     IF k \in DOMAIN upper THEN upper[k] ELSE lower[k]]

Ki == 1024
Ranges ==
  Layer({<<"mcp.timeout", 1..3600>>, <<"model_proxy.timeout", 1..3600>>,
    <<"control.timeout", 1..300>>, <<"limits.max_input_bytes", 1..256*Ki*Ki>>,
    <<"limits.max_transfer_bytes", 1..Ki*Ki*Ki>>,
    <<"limits.max_manifest_bytes", 256..16*Ki>>, <<"limits.request_timeout", 1..600>>,
    <<"limits.upload_timeout", 1..3600>>, <<"shutdown_timeout", 1..300>>})

Defaults ==
  Layer({<<"sockets.trusted_name", "@trusted">>, <<"sockets.candidate_name", "@candidate">>,
    <<"sockets.trusted_uid", 0>>, <<"sockets.candidate_uid", 10001>>,
    <<"sockets.owner_uid", 10002>>, <<"control.timeout", 15>>,
    <<"identity.mode", "disabled">>, <<"identity.mtls.cert_file", "tls.crt">>,
    <<"identity.mtls.key_file", "tls.key">>, <<"identity.mtls.ca_file", "ca.crt">>,
    <<"identity.mtls.server_name", "control">>, <<"mcp.server_name", "mcp">>,
    <<"knowledge.server_name", "knowledge">>, <<"knowledge.timeout", 30>>,
    <<"development.enabled", FALSE>>, <<"model_proxy.timeout", 300>>,
    <<"mcp.timeout", 120>>, <<"limits.max_input_bytes", Ki*Ki>>,
    <<"limits.max_transfer_bytes", 64*Ki*Ki>>, <<"limits.max_manifest_bytes", 16*Ki>>,
    <<"limits.request_timeout", 60>>, <<"limits.upload_timeout", 300>>,
    <<"shutdown_timeout", 20>>})

\* Keys without a default are empty.
Empty ==
  [k \in EnvironmentOnly \cup {"control.address", "mcp.address", "knowledge.address",
           "model_proxy.identity_mode", "model_proxy.server_name"} |-> ""]
Known == DOMAIN Defaults \cup DOMAIN Empty

-----------------------------------------------------------------------------
(***************************************************************************)
(* Validation: every fault is reported, any one refuses.                     *)
(***************************************************************************)
UIDs(c) ==
  <<c["sockets.trusted_uid"], c["sockets.candidate_uid"], c["sockets.owner_uid"]>>

\* Mutant: only the owner is told apart from the peers.
UIDsOwner(c) ==
  /\ UIDs(c)[3] \notin {UIDs(c)[1], UIDs(c)[2]}
  /\ UIDs(c)[2] # 0 /\ UIDs(c)[3] # 0

UIDsDistinct(c) ==
  /\ \A i, j \in 1..3 : i # j => UIDs(c)[i] # UIDs(c)[j]
  /\ UIDs(c)[2] # 0 /\ UIDs(c)[3] # 0

SocketsValid(c) ==
  /\ {c["sockets.trusted_name"], c["sockets.candidate_name"]} \subseteq WellFormed
  /\ c["sockets.trusted_name"] # c["sockets.candidate_name"]
  /\ UIDsDistinct(c)

Disabled(c) == c["identity.mode"] = "disabled"

ParsedEnvelope(c) == Documents[c["launch.envelope"]]

LaunchValid(c) ==
  /\ \A k \in {"launch.secret", "launch.backend", "launch.launch_key", "launch.pod_uid"} :
       c[k] \in WellFormed
  /\ c["launch.envelope"] \in DOMAIN Documents
  /\ Accepted(ParsedEnvelope(c))

IdentityValid(c) ==
  \/ Disabled(c)
  \/ /\ c["identity.mode"] = "development"
     /\ c["control.address"] # "" /\ c["development.enabled"]
  \/ /\ c["identity.mode"] = "mtls"
     /\ c["control.address"] # ""
     /\ \A k \in MTLS : c[k] # ""
     /\ c["mcp.address"] # "" => c["mcp.server_name"] # ""

\* Mutant: any known mode will do.
ModelProxyOfKnownMode(c) ==
  c["model_proxy.url"] # "" => c["model_proxy.identity_mode"] \in Modes

ModelProxyValid(c) ==
  c["model_proxy.url"] # "" =>
    /\ c["model_proxy.url"] \in HttpUrls \cup HttpsUrls
    /\ \/ /\ c["model_proxy.identity_mode"] = "development"
          /\ c["model_proxy.token"] # "" /\ c["development.enabled"]
       \/ c["model_proxy.identity_mode"] = "mtls" /\ c["identity.mode"] = "mtls"
       \/ c["model_proxy.identity_mode"] = "disabled"

\* Mutant: the upper bounds are exclusive.
WithinExclusive(c) == \A k \in DOMAIN Ranges : {c[k], c[k] + 1} \subseteq Ranges[k]

WithinRanges(c) == \A k \in DOMAIN Ranges : c[k] \in Ranges[k]

Valid(c) ==
  /\ SocketsValid(c) /\ IdentityValid(c) /\ ModelProxyValid(c) /\ WithinRanges(c)
  /\ ~Disabled(c) => LaunchValid(c)

-----------------------------------------------------------------------------
\* Mutant: the placement is looked for in the file under its keys' parent.
FileAllowedLaunch(file) ==
  \A k \in DOMAIN file \cap EnvironmentOnly : k \in {"model_proxy.url", "model_proxy.token"}

FileAllowed(file) == DOMAIN file \cap EnvironmentOnly = {}

ApplyEnv(layer, env) ==
  Over([k \in {EnvOverrides[n] : n \in DOMAIN env} |->
          env[CHOOSE n \in DOMAIN env : EnvOverrides[n] = k]],
       layer)

\* Mutant: the proxy's identity mode is not filled in.
FollowNothing(c) == c

\* The proxy's identity mode follows the identity unless it is set.
FollowIdentity(c) ==
  IF c["model_proxy.identity_mode"] = ""
  THEN [c EXCEPT !["model_proxy.identity_mode"] = c["identity.mode"]]
  ELSE c

LoadFrom(file, env) ==
  IF file = Unreadable \/ ~(DOMAIN env \subseteq DOMAIN EnvOverrides) THEN Rejected
  ELSE IF ~FileAllowed(file) \/ ~(DOMAIN file \subseteq Known) THEN Rejected
  ELSE LET c == FollowIdentity(ApplyEnv(Over(file, Over(Defaults, Empty)), env))
       IN IF Valid(c) THEN c ELSE Rejected

-----------------------------------------------------------------------------
(***************************************************************************)
(* The identity of each connection.  `none': nothing is connected to;         *)
(* `fails': the client is not built; `panics': a certificate is asked for     *)
(* where there is none.                                                       *)
(***************************************************************************)
Certificate(name) == [how |-> IF name = "" THEN "fails" ELSE "certificate", name |-> name]
Uses(how) == [how |-> how, name |-> ""]

GrpcIdentity(c, address, name) ==
  IF address = "" THEN Uses("none")
  ELSE IF c["identity.mode"] = "mtls" THEN Certificate(name) ELSE Uses("plaintext")

\* Over a plain URL nothing of the certificate is used.
ModelIdentity(c) ==
  LET url == c["model_proxy.url"]
      name == c["model_proxy.server_name"]
  IN IF url = "" THEN Uses("none")
     ELSE IF c["model_proxy.identity_mode"] # "mtls"
     THEN Uses(IF c["model_proxy.token"] = "" THEN "fails" ELSE "bearer")
     ELSE IF c["identity.mode"] # "mtls" THEN Uses("panics")
     ELSE IF url \in HttpUrls THEN Uses("plaintext")
     ELSE Certificate(IF name = "" THEN url ELSE name)

Identities(c) ==
  [control |-> GrpcIdentity(c, c["control.address"], c["identity.mtls.server_name"]),
   model |-> ModelIdentity(c),
   mcp |-> GrpcIdentity(c, c["mcp.address"], c["mcp.server_name"]),
   knowledge |-> GrpcIdentity(c, c["knowledge.address"], c["knowledge.server_name"])]
=============================================================================
