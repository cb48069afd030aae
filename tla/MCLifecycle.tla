----------------------------- MODULE MCLifecycle -----------------------------
(***************************************************************************)
(* Small instances of Lifecycle: the Job's configuration and its            *)
(* neighbours, each with one thing changed.                                  *)
(***************************************************************************)
EXTENDS Lifecycle, TLC

CONSTANTS k1, k2

Texts == {"@trusted", "@candidate", "@other", "hex64", "job", "k8s", "pod"}

Doc(key, inputs) ==
  [json |-> "ok", schemaVersion |-> 1, launchKey |-> key, patterns |-> TRUE,
   jobKind |-> "codegen", component |-> NoComponent, inputs |-> inputs]
In(name, digest, handle) ==
  [name |-> name, digest |-> digest, handle |-> handle, typed |-> TRUE]
Part(revision, named) == [revision |-> revision, named |-> named, sound |-> TRUE]
Envelopes ==
  [good |-> Doc("job", <<In("a", "d1", "h"), In("b", "d2", "")>>),
   twice |-> Doc("job", <<In("a", "d1", "h"), In("a", "d2", "")>>),
   many |-> Doc("job", <<In("a", "d1", ""), In("b", "d1", ""), In("c", "d1", "")>>),
   other |-> Doc("elsewhere", <<>>),
   trailing |-> [Doc("job", <<>>) EXCEPT !.json = "trailing data"],
   whole |-> [Doc("job", <<>>) EXCEPT !.component = Part(TRUE, Allocated)],
   half |-> [Doc("job", <<>>) EXCEPT !.component = Part(TRUE, {"puckType"})]]

\* The shipped file and its variants.
Shipped == ("identity.mode" :> "disabled") @@ ("development.enabled" :> FALSE)
Developing == ("development.enabled" :> TRUE) @@ Shipped
AllFiles ==
  {Unreadable, Shipped, Developing} \cup
  {f @@ Shipped : f \in
     {"model_proxy.token" :> "t", "model_proxy.url" :> "https://proxy",
      "launch.backend" :> "k8s", "sockets.nonce" :> "x",
      "sockets.candidate_uid" :> 10002, "sockets.trusted_uid" :> 10001,
      "sockets.candidate_name" :> "@trusted", "sockets.candidate_name" :> "file",
      "mcp.server_name" :> "", "knowledge.server_name" :> "",
      "model_proxy.timeout" :> 0, "limits.max_manifest_bytes" :> 16385}} \cup
  {("model_proxy.identity_mode" :> m) @@ f :
     m \in {"disabled", "development", "mtls"}, f \in {Shipped, Developing}}

Job ==
  ("CONTROL_ADDRESS" :> "control") @@ ("IDENTITY_MODE" :> "mtls") @@
  ("LAUNCH_SECRET" :> "hex64") @@ ("BACKEND" :> "k8s") @@ ("LAUNCH_KEY" :> "job") @@
  ("POD_UID" :> "pod") @@ ("LAUNCH_ENVELOPE" :> "good")
Proxied == ("MODEL_PROXY_URL" :> "https://proxy") @@ Job
Bearer == ("MODEL_PROXY_TOKEN" :> "t") @@ Proxied
\* What decides how the Model Proxy is reached.
ProxyEnvironments ==
  {Bearer, ("IDENTITY_MODE" :> "development") @@ Bearer,
   ("IDENTITY_MODE" :> "development") @@ Proxied,
   ("MODEL_PROXY_URL" :> "http://proxy") @@ Job}
Environments ==
  {Job, Proxied, ("DEVELOPMENT" :> "true") @@ Job} \cup ProxyEnvironments \cup
  {e @@ Job : e \in
     {"IDENTITY_MODE" :> "disabled", "LAUNCH_SECRET" :> "short",
      "MCP_ADDRESS" :> "mcp", "KNOWLEDGE_ADDRESS" :> "knowledge"}} \cup
  {("LAUNCH_ENVELOPE" :> d) @@ Job : d \in DOMAIN Envelopes}

JobConfiguration == {<<Shipped, ("KNOWLEDGE_ADDRESS" :> "knowledge") @@ Proxied>>}

\* Every file with the Job's environment, every environment with the shipped
\* file, and every mode of the Model Proxy with what it is reached by.
AllConfigurations ==
  JobConfiguration \cup (AllFiles \X {Proxied}) \cup ({Shipped} \X Environments)
    \cup ({f \in AllFiles \ {Unreadable} :
            f["development.enabled"] \/ "model_proxy.identity_mode" \in DOMAIN f}
             \X ProxyEnvironments)
=============================================================================
