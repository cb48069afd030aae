------------------------------ MODULE Lifecycle ------------------------------
(***************************************************************************)
(* The process (cmd main.go, internal/app Run, internal/sockets): it loads    *)
(* its configuration, binds both abstract names or none, builds its clients,  *)
(* serves both sockets and stops on a signal or a failed listener.  The        *)
(* kubelet starts it again until the Pod is told to stop; another process of  *)
(* the Pod may hold a name; clients connect, are queued by the kernel, and     *)
(* are accepted, refused, answered, dropped or cut.                           *)
(***************************************************************************)
EXTENDS Config

CONSTANTS
  Configurations,       \* what the Pod may be given: files with environments
  Working,              \* those a Job is given by its launcher
  RunsAs,               \* the UID the process runs under
  ClientUIDs,           \* of the Pod's other processes
  Clients,              \* connections
  Names,                \* abstract socket names
  MaxFaults             \* failures and foreign binds in one behaviour

Sides == {"trusted", "candidate"}
NameKey == [trusted |-> "sockets.trusted_name", candidate |-> "sockets.candidate_name"]
UIDKey == [trusted |-> "sockets.trusted_uid", candidate |-> "sockets.candidate_uid"]

ASSUME PairAssumption == \A p \in Configurations : p = <<p[1], p[2]>>
ASSUME NameAssumption ==
  \A p \in Configurations :
    LET l == LoadFrom(p[1], p[2])
    IN l # Rejected => \A s \in Sides : l[NameKey[s]] \in Names
ASSUME ClientAssumption == ClientUIDs \subseteq Nat /\ MaxFaults \in Nat

DrainOf == [trusted |-> "drain trusted", candidate |-> "drain candidate"]

VARIABLES
  file, env,  \* what the Pod gives the process, the same at every start
  pc,         \* where Run is
  c,          \* the loaded configuration
  exit,       \* how the process ended
  owner,      \* who holds each abstract name
  failed,     \* the sides whose Serve returned an error
  signal,     \* the kubelet told the process to stop
  expired,    \* the time both shutdowns share is over
  conns,      \* the connections
  faults

process == <<file, env>>
vars == <<process, pc, c, exit, owner, failed, signal, expired, conns, faults>>

Name(s) == c[NameKey[s]]
Stages ==
  {"load", "start", "bind trusted", "bind candidate", "build", "serving",
   "drain trusted", "drain candidate", "exited"}

NoConn == [state |-> "none", side |-> "none", uid |-> 0]
Held == {"queued", "open", "active"}
ConnStates == Held \cup {"none", "refused", "answered", "dropped", "cut"}

Fault == faults < MaxFaults /\ faults' = faults + 1
Goto(stage) == pc' = stage /\ UNCHANGED exit

-----------------------------------------------------------------------------
\* The names of S are released; what their backlogs hold is dropped.
Close(S) ==
  owner' = [n \in Names |->
    IF owner[n] = "own" /\ \E s \in S : n = Name(s) THEN "free" ELSE owner[n]]

Dropped(S, k) ==
  IF conns[k].state = "queued" /\ conns[k].side \in S
  THEN [conns[k] EXCEPT !.state = "dropped"] ELSE conns[k]

\* The process is gone, and with it every connection.
Ends(how) ==
  /\ pc' = "exited"
  /\ exit' = how
  /\ owner' = [n \in Names |-> IF owner[n] = "own" THEN "free" ELSE owner[n]]
  /\ conns' = [k \in Clients |->
       IF conns[k].state \in {"open", "active"} THEN [conns[k] EXCEPT !.state = "cut"]
       ELSE Dropped(Sides, k)]

-----------------------------------------------------------------------------
(***************************************************************************)
(* Startup.                                                                 *)
(***************************************************************************)
Load ==
  /\ pc = "load"
  /\ c' = LoadFrom(file, env)
  /\ \/ c' = Rejected /\ Ends("rejected")
     \/ c' # Rejected /\ Goto("start") /\ UNCHANGED <<owner, conns>>
  /\ UNCHANGED <<process, failed, signal, expired, faults>>

\* Mutant: a disabled process goes on.
StartableDisabled ==
  /\ RunsAs = c["sockets.owner_uid"]
  /\ Disabled(c) \/ ParsedEnvelope(c).launchKey = c["launch.launch_key"]

\* The checks ahead of the sockets: the identity, the UID, the client of
\* Control, the launch key.
Startable ==
  /\ ~Disabled(c)
  /\ RunsAs = c["sockets.owner_uid"]
  /\ Identities(c).control.how # "fails"
  /\ ParsedEnvelope(c).launchKey = c["launch.launch_key"]

Start ==
  /\ pc = "start"
  /\ \/ Startable /\ Goto("bind trusted") /\ UNCHANGED <<owner, conns>>
     \/ ~Startable /\ Ends("failed")
  /\ UNCHANGED <<process, c, failed, signal, expired, faults>>

\* The mounted identity cannot be loaded.
MaterialFails ==
  /\ pc = "start" /\ c["identity.mode"] = "mtls"
  /\ Fault
  /\ Ends("failed")
  /\ UNCHANGED <<process, c, failed, signal, expired>>

\* Mutant: a name that is held is served around.
ListenEither(s, next) ==
  /\ owner' = [owner EXCEPT ![Name(s)] = IF @ = "free" THEN "own" ELSE @]
  /\ Goto(next)
  /\ UNCHANGED conns

Listen(s, next) ==
  \/ /\ owner[Name(s)] = "free"
     /\ owner' = [owner EXCEPT ![Name(s)] = "own"]
     /\ Goto(next)
     /\ UNCHANGED conns
  \/ /\ owner[Name(s)] # "free"
     /\ Ends("failed")

BindTrusted ==
  /\ pc = "bind trusted"
  /\ Listen("trusted", "bind candidate")
  /\ UNCHANGED <<process, c, failed, signal, expired, faults>>

BindCandidate ==
  /\ pc = "bind candidate"
  /\ Listen("candidate", "build")
  /\ UNCHANGED <<process, c, failed, signal, expired, faults>>

Build ==
  /\ pc = "build"
  /\ LET hows == {Identities(c)[p].how : p \in {"model", "mcp", "knowledge"}}
     IN \/ "panics" \in hows /\ Ends("panicked")
        \/ "panics" \notin hows /\ "fails" \in hows /\ Ends("failed")
        \/ {"panics", "fails"} \cap hows = {} /\ Goto("serving")
           /\ UNCHANGED <<owner, conns>>
  /\ UNCHANGED <<process, c, failed, signal, expired, faults>>

-----------------------------------------------------------------------------
(***************************************************************************)
(* Serving.                                                                 *)
(***************************************************************************)
Set(k, state) == conns' = [conns EXCEPT ![k].state = state]

\* The kernel queues a connection to a bound name, accepted or not.
Connect(k) ==
  /\ conns[k].state \notin Held
  /\ pc # "exited"
  /\ \E s \in Sides, u \in ClientUIDs :
       /\ c # Rejected /\ owner[Name(s)] = "own"
       /\ conns' = [conns EXCEPT ![k] = [state |-> "queued", side |-> s, uid |-> u]]
  /\ UNCHANGED <<process, pc, c, exit, owner, failed, signal, expired, faults>>

Expected(s, uid) == uid = c[UIDKey[s]]

Accepting(s) ==
  /\ pc \in {"serving", "drain trusted", "drain candidate"}
  /\ s \notin failed /\ owner[Name(s)] = "own"

Accept(k) ==
  /\ conns[k].state = "queued" /\ Accepting(conns[k].side)
  /\ Set(k, IF Expected(conns[k].side, conns[k].uid) THEN "open" ELSE "refused")
  /\ UNCHANGED <<process, pc, c, exit, owner, failed, signal, expired, faults>>

\* The request is read, or comes with a descriptor and ends the connection.
Read(k) ==
  /\ conns[k].state = "open" /\ pc # "exited"
  /\ Set(k, "active") \/ Set(k, "refused")
  /\ UNCHANGED <<process, pc, c, exit, owner, failed, signal, expired, faults>>

Answer(k) ==
  /\ conns[k].state = "active" /\ pc # "exited"
  /\ Set(k, "answered")
  /\ UNCHANGED <<process, pc, c, exit, owner, failed, signal, expired, faults>>

\* Accepting on one side fails for good: its Serve returns and closes the
\* listener.
ListenerFails(s) ==
  /\ Accepting(s)
  /\ Fault
  /\ failed' = failed \cup {s}
  /\ Close({s})
  /\ conns' = [k \in Clients |-> Dropped({s}, k)]
  /\ UNCHANGED <<process, pc, c, exit, signal, expired>>

ServeReturns ==
  /\ pc = "serving" /\ failed # {}
  /\ Ends("failed")
  /\ UNCHANGED <<process, c, failed, signal, expired, faults>>

-----------------------------------------------------------------------------
(***************************************************************************)
(* Stopping.  Shutdown of a side closes its listener, and waits until its     *)
(* connections are done or the shared time is over.                          *)
(***************************************************************************)
Shut(s, stage) ==
  /\ Goto(stage)
  /\ Close({s})
  /\ conns' = [k \in Clients |-> Dropped({s}, k)]

Signalled ==
  /\ pc = "serving" /\ signal
  /\ Shut("trusted", "drain trusted")
  /\ UNCHANGED <<process, c, failed, signal, expired, faults>>

\* Mutant: the shutdowns wait as long as it takes.
DrainedFully(s) ==
  \A k \in Clients : conns[k].side = s => conns[k].state \notin {"open", "active"}

Drained(s) ==
  \/ expired
  \/ \A k \in Clients : conns[k].side = s => conns[k].state \notin {"open", "active"}

\* Mutant: the candidate's server is not shut down.
TrustedDrainedOnly ==
  /\ pc = "drain trusted" /\ Drained("trusted")
  /\ Ends("stopped")
  /\ UNCHANGED <<process, c, failed, signal, expired, faults>>

TrustedDrained ==
  /\ pc = "drain trusted" /\ Drained("trusted")
  /\ Shut("candidate", "drain candidate")
  /\ UNCHANGED <<process, c, failed, signal, expired, faults>>

CandidateDrained ==
  /\ pc = "drain candidate" /\ Drained("candidate")
  /\ Ends("stopped")
  /\ UNCHANGED <<process, c, failed, signal, expired, faults>>

\* Shutdown closes a connection that has sent nothing for a while.
DropSilent(k) ==
  /\ conns[k].state = "open"
  /\ pc = DrainOf[conns[k].side]
  /\ Set(k, "dropped")
  /\ UNCHANGED <<process, pc, c, exit, owner, failed, signal, expired, faults>>

Expire ==
  /\ pc \in {"drain trusted", "drain candidate"} /\ ~expired
  /\ expired' = TRUE
  /\ UNCHANGED <<process, pc, c, exit, owner, failed, signal, conns, faults>>

-----------------------------------------------------------------------------
(***************************************************************************)
(* The kubelet and the rest of the Pod.                                      *)
(***************************************************************************)
\* Before main asks for the signal it kills.
SignalArrives ==
  /\ ~signal
  /\ signal' = TRUE
  /\ \/ pc = "load" /\ Ends("killed")
     \/ pc # "load" /\ UNCHANGED <<pc, exit, owner, conns>>
  /\ UNCHANGED <<process, c, failed, expired, faults>>

Kill ==
  /\ pc # "exited"
  /\ Fault
  /\ Ends("killed")
  /\ UNCHANGED <<process, c, failed, signal, expired>>

Restart ==
  /\ pc = "exited" /\ ~signal
  /\ pc' = "load" /\ exit' = "none"
  /\ c' = Rejected
  /\ failed' = {} /\ expired' = FALSE
  /\ conns' = [k \in Clients |-> NoConn]
  /\ UNCHANGED <<process, owner, signal, faults>>

Squat(n) ==
  /\ owner[n] = "free"
  /\ Fault
  /\ owner' = [owner EXCEPT ![n] = "squatter"]
  /\ UNCHANGED <<process, pc, c, exit, failed, signal, expired, conns>>

Leave(n) ==
  /\ owner[n] = "squatter"
  /\ owner' = [owner EXCEPT ![n] = "free"]
  /\ UNCHANGED <<process, pc, c, exit, failed, signal, expired, conns, faults>>

Init ==
  /\ \E p \in Configurations : file = p[1] /\ env = p[2]
  /\ pc = "load" /\ exit = "none" /\ c = Rejected
  /\ owner = [n \in Names |-> "free"]
  /\ failed = {} /\ signal = FALSE /\ expired = FALSE
  /\ conns = [k \in Clients |-> NoConn]
  /\ faults = 0

Run ==
  \/ Load \/ Start \/ BindTrusted \/ BindCandidate \/ Build
  \/ ServeReturns \/ Signalled \/ TrustedDrained \/ CandidateDrained \/ Expire

Next ==
  \/ Run \/ MaterialFails \/ SignalArrives \/ Kill \/ Restart
  \/ \E s \in Sides : ListenerFails(s)
  \/ \E n \in Names : Squat(n) \/ Leave(n)
  \/ \E k \in Clients : Connect(k) \/ Accept(k) \/ Read(k) \/ Answer(k) \/ DropSilent(k)

Spec == Init /\ [][Next]_vars

\* The process runs, its timer fires, the kubelet starts it again, foreign
\* holders of a name leave.  Handlers and clients may take for ever.
FairSpec ==
  /\ Spec /\ WF_vars(Run) /\ WF_vars(Restart)
  /\ \A n \in Names : WF_vars(Leave(n))

-----------------------------------------------------------------------------
TypeOK ==
  /\ <<file, env>> \in Configurations
  /\ pc \in Stages
  /\ c # Rejected => DOMAIN c = Known /\ c["model_proxy.identity_mode"] # ""
  /\ exit \in {"none", "rejected", "failed", "panicked", "stopped", "killed"}
  /\ owner \in [Names -> {"free", "own", "squatter"}]
  /\ failed \subseteq Sides
  /\ signal \in BOOLEAN /\ expired \in BOOLEAN
  /\ conns \in [Clients -> [state : ConnStates, side : Sides \cup {"none"}, uid : Nat]]
  /\ faults \in 0..MaxFaults

(* A process that serves holds both names, whoever took one while it started  *)
(* (sockets.go:141-142, Create).                                              *)
NotBesideSquatter ==
  pc = "serving" /\ failed = {} => \A s \in Sides : owner[Name(s)] = "own"

(* One UID is never served on both sides, by any accepted configuration: what *)
(* validate requires of the UIDs is what Accept relies on.                    *)
OneSidePerUID ==
  \A j, k \in Clients :
    {conns[j].state, conns[k].state} \subseteq {"open", "active", "answered"}
      /\ conns[j].uid = conns[k].uid => conns[j].side = conns[k].side

(* An accepted connection is cut only by the end of the shared shutdown time, *)
(* a failed listener or a kill, never by an orderly stop (Run's last lines).  *)
CutForCause ==
  (\E k \in Clients : conns[k].state = "cut") =>
    expired \/ failed # {} \/ exit = "killed"

(* Accepted configurations give every placement an identity it can use: no    *)
(* certificate is asked for where there is none, and under mtls Control, MCP  *)
(* and Knowledge are reached with the certificate (validate against Run).     *)
SoundIdentity ==
  /\ exit # "panicked"
  /\ pc = "serving" /\ c["identity.mode"] = "mtls" =>
       \A p \in {"control", "mcp", "knowledge"} :
         Identities(c)[p].how \in {"none", "certificate"}

(* Launch facts, placements and secrets in force come from the environment,   *)
(* whatever the file says (LoadFrom).                                         *)
FromEnvironment ==
  c # Rejected => \A k \in EnvironmentOnly : c[k] # "" =>
    \E n \in DOMAIN env : EnvOverrides[n] = k /\ env[n] = c[k]

(* The inputs the server serves are the declared ones, each with the digest   *)
(* and the handle the envelope gives it (Parse against NewInputs).            *)
EnvelopeDetermines ==
  pc = "serving" =>
    LET e == ParsedEnvelope(c)
        kept == NewInputs(e)
    IN \A i \in DOMAIN e.inputs :
         LET n == e.inputs[i].name
         IN /\ kept.declared[n] = e.inputs[i].digest
            /\ n \in DOMAIN kept.handles => kept.handles[n] = e.inputs[i].handle

(* A process told to stop exits, whatever its handlers and clients do.        *)
Stops == signal ~> pc = "exited"

(* With the Job's configuration the process comes to serve, though names are  *)
(* held, listeners fail and it is killed meanwhile, unless told to stop.      *)
Serves ==
  (pc = "load" /\ <<file, env>> \in Working) ~> (pc = "serving" \/ signal)
=============================================================================
