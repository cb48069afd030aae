--------------------------- MODULE Lifecycle_proofs ---------------------------
(***************************************************************************)
(* What is proved of Lifecycle for every set of configurations, envelopes,  *)
(* processes of the Pod and connections.  Of a configuration in force the    *)
(* proofs use only that validate accepted it.                               *)
(***************************************************************************)
EXTENDS Lifecycle, TLAPS

-----------------------------------------------------------------------------
(***************************************************************************)
(* Configuration.  Where the value of a key comes from.                     *)
(***************************************************************************)
\* Where the keys live: the environment-only keys and the proxy's identity mode
\* have no default, and every key has one or is empty.
LEMMA Keys ==
  /\ EnvironmentOnly \cap DOMAIN Defaults = {}
  /\ "model_proxy.identity_mode" \notin EnvironmentOnly \cup DOMAIN Defaults
  /\ "identity.mode" \in DOMAIN Defaults
  /\ EnvironmentOnly \cup {"model_proxy.identity_mode"} \subseteq DOMAIN Empty
  /\ \A k \in DOMAIN Empty : Empty[k] = ""
  /\ \A n \in DOMAIN EnvOverrides : EnvOverrides[n] \in Known
<1>1. /\ EnvironmentOnly \cap DOMAIN Defaults = {}
      /\ "model_proxy.identity_mode" \notin EnvironmentOnly \cup DOMAIN Defaults
      /\ "identity.mode" \in DOMAIN Defaults
  BY DEF Defaults, EnvironmentOnly, Layer
<1>2. DOMAIN Empty =
        EnvironmentOnly \cup {"control.address", "mcp.address", "knowledge.address",
          "model_proxy.identity_mode", "model_proxy.server_name"}
  BY DEF Empty
<1>3. \A k \in DOMAIN Empty : Empty[k] = ""
  BY DEF Empty
<1>4. \A n \in DOMAIN EnvOverrides :
        EnvOverrides[n] = "identity.mode" \/ EnvOverrides[n] \in DOMAIN Empty
  BY <1>2 DEF EnvOverrides, EnvironmentOnly
<1> QED
  BY <1>1, <1>2, <1>3, <1>4 DEF Known

LEMMA OverIs ==
  ASSUME NEW upper, NEW lower
  PROVE  /\ DOMAIN Over(upper, lower) = DOMAIN upper \cup DOMAIN lower
         /\ \A k \in DOMAIN upper : Over(upper, lower)[k] = upper[k]
         /\ \A k \in DOMAIN lower \ DOMAIN upper : Over(upper, lower)[k] = lower[k]
BY DEF Over

\* No two variables name one key.
LEMMA NamedOnce ==
  ASSUME NEW m \in DOMAIN EnvOverrides, NEW n \in DOMAIN EnvOverrides,
         EnvOverrides[m] = EnvOverrides[n]
  PROVE  m = n
BY DEF EnvOverrides

\* The keys an environment sets.
SetBy(e) == {EnvOverrides[n] : n \in DOMAIN e}

LEMMA Applied ==
  ASSUME NEW layer, NEW e, DOMAIN e \subseteq DOMAIN EnvOverrides
  PROVE  /\ DOMAIN ApplyEnv(layer, e) = SetBy(e) \cup DOMAIN layer
         /\ \A n \in DOMAIN e : ApplyEnv(layer, e)[EnvOverrides[n]] = e[n]
         /\ \A k \in DOMAIN layer \ SetBy(e) : ApplyEnv(layer, e)[k] = layer[k]
<1> DEFINE named == [k \in SetBy(e) |->
                       e[CHOOSE n \in DOMAIN e : EnvOverrides[n] = k]]
<1>1. ApplyEnv(layer, e) = Over(named, layer)
  BY DEF ApplyEnv, SetBy
<1>2. DOMAIN named = SetBy(e)
  OBVIOUS
<1>3. ASSUME NEW n \in DOMAIN e
      PROVE  named[EnvOverrides[n]] = e[n]
  <2> DEFINE m == CHOOSE i \in DOMAIN e : EnvOverrides[i] = EnvOverrides[n]
  <2>1. m \in DOMAIN e /\ EnvOverrides[m] = EnvOverrides[n]
    OBVIOUS
  <2>2. m = n
    BY <2>1, NamedOnce
  <2>3. EnvOverrides[n] \in SetBy(e)
    BY DEF SetBy
  <2> QED
    BY <2>2, <2>3
<1> HIDE DEF named
<1>4. /\ DOMAIN Over(named, layer) = DOMAIN named \cup DOMAIN layer
      /\ \A k \in DOMAIN named : Over(named, layer)[k] = named[k]
      /\ \A k \in DOMAIN layer \ DOMAIN named : Over(named, layer)[k] = layer[k]
  BY OverIs
<1>5. \A n \in DOMAIN e : ApplyEnv(layer, e)[EnvOverrides[n]] = e[n]
  BY <1>1, <1>2, <1>3, <1>4 DEF SetBy
<1> QED
  BY <1>1, <1>2, <1>4, <1>5

\* A file and an environment are accepted, and give a configuration.
Gives(f, e, l) == l = LoadFrom(f, e) /\ l # Rejected

ProxyMode == "model_proxy.identity_mode"

\* Where each key of a configuration has its value from: the environment, else
\* the file, else the defaults; the proxy's identity mode, unset, is the
\* identity's; and the file sets none of the launch facts.
Sourced(f, e, l) ==
  /\ DOMAIN l = Known
  /\ DOMAIN f \cap EnvironmentOnly = {}
  /\ \A k \in SetBy(e) : \E n \in DOMAIN e : EnvOverrides[n] = k /\ l[k] = e[n]
  /\ \A k \in DOMAIN f \ (SetBy(e) \cup {ProxyMode}) : l[k] = f[k]
  /\ \A k \in DOMAIN Defaults \ (SetBy(e) \cup DOMAIN f) : l[k] = Defaults[k]
  /\ \A k \in DOMAIN Empty \ (DOMAIN Defaults \cup SetBy(e) \cup DOMAIN f) :
       k # ProxyMode => l[k] = ""
  /\ l[ProxyMode] = IF ProxyMode \in DOMAIN f /\ f[ProxyMode] # "" THEN f[ProxyMode]
                    ELSE l["identity.mode"]

LEMMA LoadedValid ==
  ASSUME NEW f, NEW e, NEW l, Gives(f, e, l)
  PROVE  Valid(l)
BY DEF Gives, LoadFrom

\* Of every file and environment that are accepted, each key has its value from
\* the source that goes first for it (LoadFrom, applyEnv).
THEOREM Precedence ==
  ASSUME NEW f, NEW e, NEW l, Gives(f, e, l)
  PROVE  Sourced(f, e, l)
<1> USE DEF ProxyMode
<1> DEFINE layer == Over(f, Over(Defaults, Empty))
<1>1. /\ l = FollowIdentity(ApplyEnv(layer, e))
      /\ DOMAIN e \subseteq DOMAIN EnvOverrides
      /\ DOMAIN f \cap EnvironmentOnly = {}
      /\ DOMAIN f \subseteq Known
  BY DEF Gives, LoadFrom, FileAllowed
<1>2. /\ DOMAIN layer = Known
      /\ \A k \in DOMAIN f : layer[k] = f[k]
      /\ \A k \in DOMAIN Defaults \ DOMAIN f : layer[k] = Defaults[k]
      /\ \A k \in DOMAIN Empty \ (DOMAIN Defaults \cup DOMAIN f) : layer[k] = ""
  <2>1. /\ DOMAIN Over(Defaults, Empty) = Known
        /\ \A k \in DOMAIN Defaults : Over(Defaults, Empty)[k] = Defaults[k]
        /\ \A k \in DOMAIN Empty \ DOMAIN Defaults : Over(Defaults, Empty)[k] = ""
    <3>1. /\ DOMAIN Over(Defaults, Empty) = DOMAIN Defaults \cup DOMAIN Empty
          /\ \A k \in DOMAIN Defaults : Over(Defaults, Empty)[k] = Defaults[k]
          /\ \A k \in DOMAIN Empty \ DOMAIN Defaults : Over(Defaults, Empty)[k] = Empty[k]
      BY OverIs
    <3> QED
      BY <3>1, Keys DEF Known
  <2>2. /\ DOMAIN layer = DOMAIN f \cup DOMAIN Over(Defaults, Empty)
        /\ \A k \in DOMAIN f : layer[k] = f[k]
        /\ \A k \in DOMAIN Over(Defaults, Empty) \ DOMAIN f :
             layer[k] = Over(Defaults, Empty)[k]
    BY OverIs
  <2> DEFINE base == Over(Defaults, Empty)
  <2> HIDE DEF layer, base
  <2>3. /\ DOMAIN layer = DOMAIN f \cup Known
        /\ \A k \in Known \ DOMAIN f : layer[k] = base[k]
    BY <2>1, <2>2 DEF base
  <2>4. DOMAIN f \cup Known = Known
    BY <1>1
  <2>5. \A k \in DOMAIN Defaults \ DOMAIN f : k \in Known /\ base[k] = Defaults[k]
    BY <2>1 DEF base, Known
  <2>6. \A k \in DOMAIN Empty \ (DOMAIN Defaults \cup DOMAIN f) : k \in Known /\ base[k] = ""
    BY <2>1 DEF base, Known
  <2> QED
    BY <2>2, <2>3, <2>4, <2>5, <2>6
<1> HIDE DEF layer
<1>3. /\ DOMAIN ApplyEnv(layer, e) = Known
      /\ \A n \in DOMAIN e : ApplyEnv(layer, e)[EnvOverrides[n]] = e[n]
      /\ \A k \in Known \ SetBy(e) : ApplyEnv(layer, e)[k] = layer[k]
  <2>1. SetBy(e) \subseteq Known
    BY <1>1, Keys DEF SetBy
  <2>2. /\ DOMAIN ApplyEnv(layer, e) = SetBy(e) \cup DOMAIN layer
        /\ \A n \in DOMAIN e : ApplyEnv(layer, e)[EnvOverrides[n]] = e[n]
        /\ \A k \in DOMAIN layer \ SetBy(e) : ApplyEnv(layer, e)[k] = layer[k]
    BY <1>1, Applied
  <2> QED
    BY <1>2, <2>1, <2>2
<1>4. /\ DOMAIN l = Known
      /\ \A k \in Known \ {ProxyMode} : l[k] = ApplyEnv(layer, e)[k]
      /\ l[ProxyMode] =
           IF ApplyEnv(layer, e)[ProxyMode] = "" THEN ApplyEnv(layer, e)["identity.mode"]
           ELSE ApplyEnv(layer, e)[ProxyMode]
  <2>1. ProxyMode \in Known /\ ApplyEnv(layer, e) = [k \in Known |-> ApplyEnv(layer, e)[k]]
    <3>1. ProxyMode \in Known
      BY Keys DEF Known
    <3> QED
      BY <1>3, <3>1 DEF ApplyEnv, Over
  <2> QED
    BY <1>1, <1>3, <2>1 DEF FollowIdentity
<1>5. ProxyMode \notin SetBy(e)
  BY <1>1 DEF EnvOverrides, SetBy
<1>6. ApplyEnv(layer, e)[ProxyMode] = IF ProxyMode \in DOMAIN f THEN f[ProxyMode] ELSE ""
  BY <1>2, <1>3, <1>5, Keys DEF Known
<1>7. l["identity.mode"] = ApplyEnv(layer, e)["identity.mode"]
  BY <1>4, Keys DEF Known
<1>8. \A k \in SetBy(e) : \E n \in DOMAIN e : EnvOverrides[n] = k /\ l[k] = e[n]
  <2>1. \A n \in DOMAIN e : EnvOverrides[n] \in Known \ {ProxyMode}
    BY <1>1, <1>5, Keys DEF SetBy
  <2>2. \A n \in DOMAIN e : l[EnvOverrides[n]] = e[n]
    BY <1>3, <1>4, <2>1
  <2> QED
    BY <2>2 DEF SetBy
<1>9. /\ \A k \in DOMAIN f \ (SetBy(e) \cup {ProxyMode}) : l[k] = f[k]
      /\ \A k \in DOMAIN Defaults \ (SetBy(e) \cup DOMAIN f) : l[k] = Defaults[k]
      /\ \A k \in DOMAIN Empty \ (DOMAIN Defaults \cup SetBy(e) \cup DOMAIN f) :
           k # ProxyMode => l[k] = ""
  <2>1. \A k \in Known \ (SetBy(e) \cup {ProxyMode}) : l[k] = layer[k]
    BY <1>3, <1>4
  <2>2. ProxyMode \notin DOMAIN Defaults
    BY Keys
  <2>3. DOMAIN f \subseteq Known /\ DOMAIN Defaults \subseteq Known /\ DOMAIN Empty \subseteq Known
    BY <1>1 DEF Known
  <2> QED
    BY <1>2, <2>1, <2>2, <2>3
<1>10. l[ProxyMode] = IF ProxyMode \in DOMAIN f /\ f[ProxyMode] # "" THEN f[ProxyMode]
                      ELSE l["identity.mode"]
  BY <1>4, <1>6, <1>7
<1> QED
  BY <1>1, <1>4, <1>8, <1>9, <1>10 DEF Sourced

\* What is in force of the launch facts is the environment's.
SetAs(e, k, value) == \E n \in DOMAIN e : EnvOverrides[n] = k /\ e[n] = value

LEMMA LaunchFromEnvironment ==
  ASSUME NEW f, NEW e, NEW l, Gives(f, e, l),
         NEW k \in EnvironmentOnly, l[k] # ""
  PROVE  SetAs(e, k, l[k])
<1>1. Sourced(f, e, l)
  BY Precedence
<1>2. /\ k \in DOMAIN Empty \ DOMAIN Defaults
      /\ k \notin DOMAIN f /\ k # ProxyMode
  BY <1>1, Keys DEF Sourced, ProxyMode
<1>3. k \in SetBy(e)
  BY <1>1, <1>2 DEF Sourced
<1> QED
  BY <1>1, <1>3 DEF Sourced, SetAs

\* An accepted configuration leaves no identity open.
LEMMA ModeIsSet ==
  ASSUME NEW f, NEW e, NEW l, Gives(f, e, l)
  PROVE  l[ProxyMode] # ""
<1>1. l["identity.mode"] \in Modes
  BY LoadedValid DEF Valid, IdentityValid, Disabled, Modes
<1> QED
  BY <1>1, Precedence DEF Modes, Sourced

-----------------------------------------------------------------------------
(***************************************************************************)
(* What is in force.  Nothing but a validated configuration is ever          *)
(* run with, and before it is loaded nothing is served.                      *)
(***************************************************************************)
Given == \E p \in Configurations : file = p[1] /\ env = p[2]

Past == Stages \ {"load", "exited"}

Loaded ==
  /\ Given
  /\ c \in {Rejected, LoadFrom(file, env)}
  /\ pc \in Past => c # Rejected
  /\ pc = "load" => c = Rejected /\ \A k \in Clients : conns[k].state = "none"

Conn == [state : ConnStates, side : Sides \cup {"none"}, uid : ClientUIDs \cup {0}]

Types ==
  /\ pc \in Stages
  /\ owner \in [Names -> {"free", "own", "squatter"}]
  /\ failed \subseteq Sides
  /\ conns \in [Clients -> Conn]

\* Who is served is who the side expects; only sides queue.
Served == {"open", "active", "answered"}

Sided(k) ==
  /\ conns[k].state \in Held => conns[k].side \in Sides
  /\ conns[k].state \in Served =>
       /\ c # Rejected /\ conns[k].side \in Sides
       /\ Expected(conns[k].side, conns[k].uid)

BaseInv == Types /\ Loaded /\ \A k \in Clients : Sided(k)

LEMMA InForce ==
  ASSUME Loaded, c # Rejected
  PROVE  Valid(c) /\ \A s \in Sides : Name(s) \in Names
<1>1. c = LoadFrom(file, env)
  BY DEF Loaded
<1>2. PICK p \in Configurations : file = p[1] /\ env = p[2]
  BY DEF Loaded, Given
<1>3. \A s \in Sides : c[NameKey[s]] \in Names
  BY <1>1, <1>2, NameAssumption
<1> QED
  BY <1>1, <1>3, LoadedValid DEF Name, Gives

\* validate keeps the peers' names and UIDs apart.
LEMMA Apart ==
  ASSUME Valid(c)
  PROVE  \A s, t \in Sides : s # t => Name(s) # Name(t) /\ c[UIDKey[s]] # c[UIDKey[t]]
<1>1. c["sockets.trusted_name"] # c["sockets.candidate_name"]
  BY DEF Valid, SocketsValid
<1>2. c["sockets.trusted_uid"] # c["sockets.candidate_uid"]
  <2>1. UIDs(c)[1] # UIDs(c)[2]
    BY DEF Valid, SocketsValid, UIDsDistinct
  <2> QED
    BY <2>1 DEF UIDs
<1>3. /\ NameKey["trusted"] = "sockets.trusted_name"
      /\ NameKey["candidate"] = "sockets.candidate_name"
      /\ UIDKey["trusted"] = "sockets.trusted_uid"
      /\ UIDKey["candidate"] = "sockets.candidate_uid"
  BY DEF NameKey, UIDKey
<1> QED
  BY <1>1, <1>2, <1>3 DEF Sides, Name

-----------------------------------------------------------------------------
(***************************************************************************)
(* What the parts of a step do.                                             *)
(***************************************************************************)

\* A process that ends keeps no name and no connection, and changes no side.
LEMMA EndsBase ==
  ASSUME Types, NEW how, Ends(how)
  PROVE  /\ pc' = "exited" /\ exit' = how
         /\ owner' \in [Names -> {"free", "own", "squatter"}]
         /\ conns' \in [Clients -> Conn]
         /\ \A k \in Clients :
              /\ conns'[k].side = conns[k].side /\ conns'[k].uid = conns[k].uid
              /\ conns'[k].state \notin {"open", "active"}
              /\ conns'[k].state = "queued" => conns[k].state = "queued"
              /\ conns'[k].state = "answered" => conns[k].state = "answered"
              /\ conns'[k].state = "cut" =>
                   conns[k].state \in {"open", "active", "cut"}
<1>1. \A k \in Clients : /\ conns'[k] \in Conn
                         /\ conns'[k].side = conns[k].side /\ conns'[k].uid = conns[k].uid
                         /\ conns'[k].state \notin {"open", "active"}
                         /\ conns'[k].state = "queued" => conns[k].state = "queued"
                         /\ conns'[k].state = "answered" => conns[k].state = "answered"
                         /\ conns'[k].state = "cut" =>
                              conns[k].state \in {"open", "active", "cut"}
  <2> SUFFICES ASSUME NEW k \in Clients
               PROVE  /\ conns'[k] \in Conn
                      /\ conns'[k].side = conns[k].side /\ conns'[k].uid = conns[k].uid
                      /\ conns'[k].state \notin {"open", "active"}
                      /\ conns'[k].state = "queued" => conns[k].state = "queued"
                      /\ conns'[k].state = "answered" => conns[k].state = "answered"
                      /\ conns'[k].state = "cut" =>
                           conns[k].state \in {"open", "active", "cut"}
    OBVIOUS
  <2>1. conns[k] \in Conn
    BY DEF Types
  <2>2. CASE conns[k].state \in {"open", "active"}
    <3>1. conns'[k] = [conns[k] EXCEPT !.state = "cut"]
      BY <2>2 DEF Ends
    <3> QED
      BY <2>1, <2>2, <3>1 DEF Conn, ConnStates, Held
  <2>3. CASE conns[k].state = "queued" /\ conns[k].side \in Sides
    <3>1. conns'[k] = [conns[k] EXCEPT !.state = "dropped"]
      BY <2>3 DEF Ends, Dropped
    <3> QED
      BY <2>1, <2>3, <3>1 DEF Conn, ConnStates, Held
  <2> QED
    BY <2>1, <2>2, <2>3 DEF Ends, Dropped, Conn, ConnStates, Held
<1> QED
  BY <1>1 DEF Ends, Types
\* Releasing the names of a side, and dropping what waited behind them.
LEMMA CloseBase ==
  ASSUME Types, NEW S \in SUBSET Sides, Close(S),
         conns' = [k \in Clients |-> Dropped(S, k)]
  PROVE  /\ owner' \in [Names -> {"free", "own", "squatter"}]
         /\ conns' \in [Clients -> Conn]
         /\ \A k \in Clients :
              \/ conns'[k] = conns[k]
              \/ conns'[k].state = "dropped"
<1>1. ASSUME NEW k \in Clients
      PROVE  /\ conns'[k] \in Conn
             /\ conns'[k] = conns[k] \/ conns'[k].state = "dropped"
  <2>1. conns[k] \in Conn /\ conns'[k] = Dropped(S, k)
    BY DEF Types
  <2> QED
    BY <2>1 DEF Dropped, Conn, ConnStates, Held
<1> QED
  BY <1>1 DEF Close, Types

LEMMA SetBase ==
  ASSUME Types, NEW k \in Clients, NEW state \in ConnStates, Set(k, state)
  PROVE  /\ conns' \in [Clients -> Conn]
         /\ conns'[k] = [conns[k] EXCEPT !.state = state]
         /\ \A j \in Clients : j # k => conns'[j] = conns[j]
BY DEF Types, Set, Conn

\* The steps of a connection.
ConnStep(k) ==
  \/ Connect(k) \/ Accept(k) \/ Read(k) \/ Answer(k) \/ DropSilent(k)

LEMMA ConnBase ==
  ASSUME Types, NEW k \in Clients, Sided(k), ConnStep(k)
  PROVE  /\ conns' \in [Clients -> Conn]
         /\ \A j \in Clients : j # k => conns'[j] = conns[j]
         /\ UNCHANGED <<process, pc, c, exit, owner, failed, signal, expired>>
         /\ pc # "exited"
<1>1. CASE Connect(k)
  <2>1. PICK s \in Sides, u \in ClientUIDs :
          conns' = [conns EXCEPT ![k] = [state |-> "queued", side |-> s, uid |-> u]]
    BY <1>1 DEF Connect
  <2> QED
    BY <1>1, <2>1 DEF Connect, Types, Conn, ConnStates, Held
<1>2. CASE Accept(k) \/ Read(k) \/ Answer(k) \/ DropSilent(k)
  <2>1. \E state \in ConnStates : Set(k, state)
    BY <1>2 DEF Accept, Read, Answer, DropSilent, ConnStates, Held
  <2>2. pc # "exited"
    <3>1. CASE DropSilent(k)
      <4>1. pc = DrainOf[conns[k].side] /\ conns[k].side \in Sides
        BY <3>1 DEF DropSilent, Sided, Held
      <4>2. DrainOf["trusted"] # "exited" /\ DrainOf["candidate"] # "exited"
        BY DEF DrainOf
      <4> QED
        BY <4>1, <4>2 DEF Sides
    <3> QED
      BY <1>2, <3>1 DEF Accept, Accepting, Read, Answer
  <2> QED
    BY <1>2, <2>1, <2>2, SetBase DEF Accept, Read, Answer, DropSilent
<1> QED
  BY <1>1, <1>2 DEF ConnStep
-----------------------------------------------------------------------------
(***************************************************************************)
(* Sides.                                                                   *)
(***************************************************************************)
\* A step that goes on with the configuration in force, from a stage past the
\* load, and serves nobody new.
LEMMA BaseGoesOn ==
  ASSUME BaseInv, pc' \in Stages \ {"load"}, UNCHANGED process,
         c' = c, pc' \in Past => c # Rejected,
         owner' \in [Names -> {"free", "own", "squatter"}],
         failed' \subseteq Sides, conns' \in [Clients -> Conn],
         \A k \in Clients :
           conns'[k] = conns[k] \/ Sided(k)'
  PROVE  BaseInv'
<1>1. Types'
  BY DEF BaseInv, Types
<1>2. Loaded'
  BY DEF BaseInv, Loaded, Given, process
<1>3. \A k \in Clients : Sided(k)'
  BY DEF BaseInv, Sided, Expected
<1> QED
  BY <1>1, <1>2, <1>3 DEF BaseInv

LEMMA BaseEnds ==
  ASSUME BaseInv, NEW how, Ends(how), UNCHANGED process,
         failed' \subseteq Sides, c' \in {c, LoadFrom(file, env)}, c' = c \/ pc = "load"
  PROVE  BaseInv'
<1>1. Types'
  BY EndsBase DEF BaseInv, Types, Stages
<1>2. Loaded'
  BY EndsBase DEF BaseInv, Loaded, Given, process, Past
<1>3. ASSUME NEW k \in Clients
      PROVE  Sided(k)'
  <2>1. /\ conns'[k].side = conns[k].side /\ conns'[k].uid = conns[k].uid
        /\ conns'[k].state \in Held => conns[k].state \in Held
        /\ conns'[k].state \in Served => conns[k].state = "answered"
    BY EndsBase DEF BaseInv, Held, Served
  <2>2. CASE c' = c
    BY <2>1, <2>2 DEF BaseInv, Sided, Served, Expected
  <2>3. CASE pc = "load"
    BY <2>1, <2>3 DEF BaseInv, Loaded, Sided, Held
  <2> QED
    BY <2>2, <2>3
<1> QED
  BY <1>1, <1>2, <1>3 DEF BaseInv

LEMMA BaseStep ==
  ASSUME BaseInv, [Next]_vars
  PROVE  BaseInv'
<1> USE DEF BaseInv
<1>1. CASE Load
  <2>1. CASE c' # Rejected /\ Goto("start") /\ UNCHANGED <<owner, conns>>
    BY <1>1, <2>1
    DEF Load, Goto, Types, Stages, Loaded, Given, process, Past, Sided, Held, Served
  <2>2. CASE Ends("rejected")
    BY <1>1, <2>2, BaseEnds DEF Load, Types
  <2> QED
    BY <1>1, <2>1, <2>2 DEF Load
\* Every other way to end leaves the configuration alone.
<1>2. ASSUME NEW how, Ends(how), UNCHANGED <<process, c, failed>>
      PROVE  BaseInv'
  BY <1>2, BaseEnds DEF Types
<1>3. CASE Start \/ Build
  <2>1. CASE \E stage \in {"bind trusted", "serving"} : Goto(stage) /\ UNCHANGED <<owner, conns>>
    BY <1>3, <2>1, BaseGoesOn DEF Start, Build, Goto, Types, Loaded, Stages, Past
  <2> QED
    BY <1>2, <1>3, <2>1 DEF Start, Build
<1>4. CASE BindTrusted \/ BindCandidate
  <2>1. CASE \E s \in Sides, stage \in {"bind candidate", "build"} :
               /\ owner' = [owner EXCEPT ![Name(s)] = "own"]
               /\ Goto(stage) /\ UNCHANGED conns
    BY <1>4, <2>1, BaseGoesOn
    DEF BindTrusted, BindCandidate, Goto, Types, Loaded, Stages, Past
  <2> QED
    BY <1>2, <1>4, <2>1 DEF BindTrusted, BindCandidate, Listen, Sides
<1>5. CASE ServeReturns \/ CandidateDrained \/ MaterialFails \/ Kill
  BY <1>2, <1>5 DEF ServeReturns, CandidateDrained, MaterialFails, Kill
<1>6. CASE Signalled \/ TrustedDrained \/ \E s \in Sides : ListenerFails(s)
  <2>1. PICK s \in Sides : /\ Close({s})
                           /\ conns' = [k \in Clients |-> Dropped({s}, k)]
    BY <1>6 DEF Signalled, TrustedDrained, ListenerFails, Shut, Sides
  <2>2. /\ owner' \in [Names -> {"free", "own", "squatter"}]
        /\ conns' \in [Clients -> Conn]
        /\ \A k \in Clients : conns'[k] = conns[k] \/ conns'[k].state = "dropped"
    <3>1. {s} \in SUBSET Sides
      OBVIOUS
    <3> QED
      BY <2>1, <3>1, CloseBase
  <2>3. /\ UNCHANGED <<process, c>> /\ failed' \subseteq Sides
        /\ pc' \in Stages \ {"load"} /\ c # Rejected
    BY <1>6
    DEF Signalled, TrustedDrained, ListenerFails, Shut, Goto, Accepting, Types,
        Loaded, Stages, Past
  <2> QED
    BY <2>2, <2>3, BaseGoesOn DEF Sided, Held, Served
<1>7. ASSUME NEW k \in Clients, ConnStep(k)
      PROVE  BaseInv'
  <2>1. /\ conns' \in [Clients -> Conn]
        /\ \A j \in Clients : j # k => conns'[j] = conns[j]
        /\ UNCHANGED <<process, pc, c, exit, owner, failed, signal, expired>>
        /\ pc # "exited"
    BY <1>7, ConnBase
  <2>2. c # Rejected /\ pc \in Past
    <3>1. CASE pc = "load"
      <4>1. conns[k].state = "none" /\ c = Rejected
        BY <3>1 DEF Loaded
      <4> QED
        BY <1>7, <4>1 DEF ConnStep, Connect, Accept, Read, Answer, DropSilent
    <3> QED
      BY <2>1, <3>1 DEF Loaded, Past, Types
  <2>3. Sided(k)'
    <3>1. CASE Connect(k)
      BY <2>1, <3>1 DEF Connect, Sided, Held, Served, Types
    <3>2. CASE Accept(k)
      <4>1. conns[k] \in Conn /\ conns[k].side \in Sides
        BY <3>2 DEF Accept, Sided, Held, Types
      <4>2. CASE Expected(conns[k].side, conns[k].uid)
        <5>1. conns'[k] = [conns[k] EXCEPT !.state = "open"]
          BY <3>2, <4>2, SetBase DEF Accept, ConnStates, Held
        <5> QED
          BY <2>1, <2>2, <4>1, <4>2, <5>1 DEF Sided, Conn, Expected
      <4>3. CASE ~Expected(conns[k].side, conns[k].uid)
        <5>1. conns'[k] = [conns[k] EXCEPT !.state = "refused"]
          BY <3>2, <4>3, SetBase DEF Accept, ConnStates
        <5> QED
          BY <4>1, <5>1 DEF Sided, Conn, Held, Served
      <4> QED
        BY <4>2, <4>3
    <3>3. CASE Read(k) \/ Answer(k) \/ DropSilent(k)
      <4>1. conns[k] \in Conn /\ conns[k].state \in {"open", "active"}
        BY <3>3 DEF Read, Answer, DropSilent, Types
      <4>2. PICK state \in {"active", "refused", "answered", "dropped"} :
              conns'[k] = [conns[k] EXCEPT !.state = state]
        BY <3>3, SetBase DEF Read, Answer, DropSilent, ConnStates, Held
      <4> QED
        BY <2>1, <4>1, <4>2 DEF Sided, Conn, Held, Served, Expected
    <3> QED
      BY <1>7, <3>1, <3>2, <3>3 DEF ConnStep
  <2> QED
    BY <2>1, <2>2, <2>3, BaseGoesOn DEF Types, Past
<1>8. CASE SignalArrives
  BY <1>2, <1>8
  DEF SignalArrives, Types, Loaded, Given, process, Sided, Expected
<1>9. CASE Restart
  BY <1>9
  DEF Restart, Types, Stages, Loaded, Given, process, Past, Sided, NoConn,
      Conn, ConnStates, Held, Served
<1>10. CASE Expire \/ (\E n \in Names : Squat(n) \/ Leave(n)) \/ UNCHANGED vars
  BY <1>10
  DEF Expire, Squat, Leave, vars, Types, Loaded, Given, process, Sided, Expected
<1> QED
  BY <1>1, <1>3, <1>4, <1>5, <1>6, <1>7, <1>8, <1>9, <1>10
  DEF Next, Run, ConnStep

LEMMA BaseInit == Init => BaseInv
BY DEF Init, BaseInv, Types, Stages, Loaded, Given, Past, Sided, NoConn, Conn,
       ConnStates, Held, Served

\* One UID is served on one side only, with any configuration validate accepts.
THEOREM OneSide == Spec => []OneSidePerUID
<1>1. BaseInv /\ [Next]_vars => BaseInv'
  BY BaseStep
<1>2. ASSUME BaseInv, NEW j \in Clients, NEW k \in Clients,
             {conns[j].state, conns[k].state} \subseteq Served,
             conns[j].uid = conns[k].uid
      PROVE  conns[j].side = conns[k].side
  <2>1. /\ c # Rejected /\ conns[j].side \in Sides /\ conns[k].side \in Sides
        /\ c[UIDKey[conns[j].side]] = c[UIDKey[conns[k].side]]
    BY <1>2 DEF BaseInv, Sided, Expected
  <2> QED
    BY <1>2, <2>1, InForce, Apart DEF BaseInv
<1>3. BaseInv => OneSidePerUID
  BY <1>2 DEF OneSidePerUID, Served
<1> QED
  BY <1>1, <1>3, BaseInit, PTL DEF Spec
-----------------------------------------------------------------------------
(***************************************************************************)
(* Names.  A name once bound is kept until its listener fails or the         *)
(* process stops.                                                            *)
(***************************************************************************)
Bound ==
  failed = {} =>
    /\ pc \in {"bind candidate", "build", "serving"} =>
         owner[Name("trusted")] = "own"
    /\ pc \in {"build", "serving"} => owner[Name("candidate")] = "own"

NameInv == BaseInv /\ Bound

LEMMA NameStep ==
  ASSUME NameInv, [Next]_vars
  PROVE  NameInv'
<1> USE DEF NameInv
<1>1. BaseInv'
  BY BaseStep
<1>2. ASSUME pc' \notin {"bind candidate", "build", "serving"} \/ failed' # {}
      PROVE  NameInv'
  BY <1>1, <1>2 DEF Bound
<1>3. CASE Load \/ Start \/ Signalled \/ TrustedDrained \/ CandidateDrained
             \/ ServeReturns \/ MaterialFails \/ Kill \/ Restart
  BY <1>2, <1>3
  DEF Load, Start, Signalled, Shut, TrustedDrained, CandidateDrained,
      ServeReturns, MaterialFails, Kill, Restart, Ends, Goto
<1>4. ASSUME NEW how, Ends(how)
      PROVE  NameInv'
  BY <1>2, <1>4 DEF Ends
<1>5. CASE BindTrusted
  <2>1. Name("trusted") \in Names
    BY <1>5, InForce DEF BindTrusted, BaseInv, Loaded, Past, Stages, Sides
  <2>2. CASE /\ owner' = [owner EXCEPT ![Name("trusted")] = "own"]
             /\ Goto("bind candidate")
    BY <1>1, <1>5, <2>1, <2>2
    DEF BindTrusted, Goto, Bound, Name, BaseInv, Types
  <2> QED
    BY <1>4, <1>5, <2>2 DEF BindTrusted, Listen
<1>6. CASE BindCandidate
  <2>1. Name("candidate") \in Names /\ Name("trusted") \in Names
    BY <1>6, InForce DEF BindCandidate, BaseInv, Loaded, Past, Stages, Sides
  <2>2. CASE /\ owner' = [owner EXCEPT ![Name("candidate")] = "own"]
             /\ Goto("build")
    BY <1>1, <1>6, <2>1, <2>2
    DEF BindCandidate, Goto, Bound, Name, BaseInv, Types
  <2> QED
    BY <1>4, <1>6, <2>2 DEF BindCandidate, Listen
<1>7. CASE Build
  <2>1. CASE Goto("serving") /\ UNCHANGED <<owner, conns>>
    BY <1>1, <1>7, <2>1 DEF Build, Goto, Bound, Name
  <2> QED
    BY <1>4, <1>7, <2>1 DEF Build
<1>8. ASSUME NEW s \in Sides, ListenerFails(s)
      PROVE  NameInv'
  BY <1>2, <1>8 DEF ListenerFails
<1>9. ASSUME NEW k \in Clients, ConnStep(k)
      PROVE  NameInv'
  BY <1>1, <1>9, ConnBase DEF Bound, Name, BaseInv
\* A foreign process takes only what is free, and leaves only what it took.
<1>10. ASSUME NEW n \in Names, Squat(n) \/ Leave(n)
       PROVE  NameInv'
  <2>1. pc' = pc /\ c' = c /\ failed' = failed
    BY <1>10 DEF Squat, Leave
  <2>2. CASE pc \in {"bind candidate", "build", "serving"}
    <3>1. \A s \in Sides : Name(s) \in Names
      BY <2>2, InForce DEF BaseInv, Loaded, Past, Stages
    <3>2. \A m \in Names : owner[m] = "own" => owner'[m] = "own"
      BY <1>10 DEF Squat, Leave, BaseInv, Types
    <3> QED
      BY <1>1, <2>1, <3>1, <3>2 DEF Bound, Name, Sides
  <2> QED
    BY <1>2, <2>1, <2>2
<1>11. CASE SignalArrives
  BY <1>1, <1>4, <1>11 DEF SignalArrives, Bound, Name
<1>12. CASE Expire \/ UNCHANGED vars
  BY <1>1, <1>12 DEF Expire, vars, Bound, Name
<1> QED
  BY <1>3, <1>5, <1>6, <1>7, <1>8, <1>9, <1>10, <1>11, <1>12
  DEF Next, Run, ConnStep

\* A process that serves holds both names, whatever takes names around it.
THEOREM BothNames == Spec => []NotBesideSquatter
<1>1. Init => NameInv
  BY BaseInit DEF Init, NameInv, Bound
<1>2. NameInv /\ [Next]_vars => NameInv'
  BY NameStep
<1>3. NameInv => NotBesideSquatter
  BY DEF NameInv, Bound, NotBesideSquatter, Sides
<1> QED
  BY <1>1, <1>2, <1>3, PTL DEF Spec

-----------------------------------------------------------------------------
(***************************************************************************)
(* Stopping.  No connection is accepted behind a side's shutdown, because     *)
(* its name is gone; so what the first shutdown drained stays drained while    *)
(* the second waits.                                                          *)
(***************************************************************************)
InUse(k) == conns[k].state \in {"open", "active"}

Starting == {"load", "start", "bind trusted", "bind candidate", "build"}
Draining == {"drain trusted", "drain candidate"}

Orderly ==
  /\ pc \in Starting => \A k \in Clients : ~InUse(k)
  /\ pc \in Draining => owner[Name("trusted")] # "own"
  /\ pc = "drain candidate" =>
       expired \/ \A k \in Clients : InUse(k) => conns[k].side # "trusted"
  /\ pc # "exited" => \A k \in Clients : conns[k].state # "cut"

StopInv == BaseInv /\ Orderly /\ CutForCause
\* A step that ends the process is orderly when what it cuts has a cause.
LEMMA StopEnds ==
  ASSUME StopInv, BaseInv', NEW how, Ends(how),
         \/ \A k \in Clients : ~InUse(k)
         \/ expired' \/ failed' # {} \/ how = "killed",
         pc # "exited"
  PROVE  StopInv'
<1>1. pc' = "exited" /\ exit' = how
  BY EndsBase DEF StopInv, BaseInv
<1>2. CutForCause'
  <2> SUFFICES ASSUME NEW k \in Clients, conns'[k].state = "cut"
               PROVE  expired' \/ failed' # {} \/ exit' = "killed"
    BY DEF CutForCause
  <2>1. InUse(k)
    BY EndsBase DEF StopInv, BaseInv, Orderly, InUse
  <2> QED
    BY <1>1, <2>1
<1> QED
  BY <1>1, <1>2 DEF StopInv, Orderly, Starting, Draining

\* A step outside the end that brings no connection into use and cuts none.
LEMMA StopGoesOn ==
  ASSUME StopInv, BaseInv', pc' # "exited", pc # "exited",
         \A k \in Clients :
           /\ InUse(k)' => InUse(k) /\ conns'[k].side = conns[k].side
           /\ conns'[k].state = "cut" => conns[k].state = "cut",
         pc' \in Starting => pc \in Starting,
         pc' \in Draining => owner'[c'[NameKey["trusted"]]] # "own",
         pc' = "drain candidate" =>
           \/ expired'
           \/ \A k \in Clients : InUse(k) => conns[k].side # "trusted"
  PROVE  StopInv'
<1>1. \A k \in Clients : conns'[k].state # "cut"
  BY DEF StopInv, Orderly
<1>2. CutForCause'
  BY <1>1 DEF CutForCause
<1>3. Orderly'
  BY <1>1 DEF StopInv, Orderly, Name
<1> QED
  BY <1>2, <1>3 DEF StopInv
\* Releasing names gives none to the process.
LEMMA CloseFrees ==
  ASSUME BaseInv, NEW S \in SUBSET Sides, Close(S),
         conns' = [k \in Clients |-> Dropped(S, k)]
  PROVE  /\ \A n \in Names : owner'[n] = "own" =>
              owner[n] = "own" /\ \A s \in S : n # Name(s)
         /\ \A k \in Clients :
              /\ InUse(k)' => InUse(k) /\ conns'[k].side = conns[k].side
              /\ conns'[k].state = "cut" => conns[k].state = "cut"
<1>1. \A n \in Names : owner'[n] = "own" =>
        owner[n] = "own" /\ \A s \in S : n # Name(s)
  BY DEF Close, BaseInv, Types
<1>2. \A k \in Clients : conns'[k] = conns[k] \/ conns'[k].state = "dropped"
  BY CloseBase DEF BaseInv
<1> QED
  BY <1>1, <1>2 DEF InUse

LEMMA StopStep ==
  ASSUME StopInv, [Next]_vars
  PROVE  StopInv'
<1> USE DEF StopInv
<1>1. BaseInv'
  BY BaseStep
<1>2. pc \in Stages /\ (pc \in Past => \A s \in Sides : Name(s) \in Names)
  BY InForce DEF BaseInv, Types, Loaded
\* Starting: nobody is served yet.
<1>3. CASE Load \/ Start \/ BindTrusted \/ BindCandidate \/ Build \/ MaterialFails
  <2>1. pc \in Starting /\ \A k \in Clients : ~InUse(k)
    BY <1>3
    DEF Load, Start, BindTrusted, BindCandidate, Build, MaterialFails, Orderly,
        Starting
  <2>2. CASE \E how : Ends(how)
    BY <1>1, <2>1, <2>2, StopEnds DEF Starting
  <2>3. CASE /\ conns' = conns
             /\ pc' \in {"start", "bind trusted", "bind candidate", "build", "serving"}
    BY <1>1, <2>1, <2>3, StopGoesOn DEF Starting, Draining, InUse
  <2> QED
    BY <1>3, <2>2, <2>3
    DEF Load, Start, BindTrusted, BindCandidate, Listen, Build, MaterialFails, Goto
<1>4. CASE ServeReturns \/ Kill
  BY <1>1, <1>4, StopEnds DEF ServeReturns, Kill
<1>5. CASE Signalled
  <2>1. /\ \A n \in Names : owner'[n] = "own" => n # Name("trusted")
        /\ \A k \in Clients :
             /\ InUse(k)' => InUse(k) /\ conns'[k].side = conns[k].side
             /\ conns'[k].state = "cut" => conns[k].state = "cut"
    <3>1. {"trusted"} \in SUBSET Sides
      BY DEF Sides
    <3> QED
      BY <1>5, <3>1, CloseFrees DEF Signalled, Shut
  <2>2. Name("trusted") \in Names
    BY <1>2, <1>5 DEF Signalled, Past, Stages, Sides
  <2> QED
    BY <1>1, <1>5, <2>1, <2>2, StopGoesOn
    DEF Signalled, Shut, Goto, Starting, Draining, Name
<1>6. CASE TrustedDrained
  <2>1. /\ \A n \in Names : owner'[n] = "own" => owner[n] = "own"
        /\ \A k \in Clients :
             /\ InUse(k)' => InUse(k) /\ conns'[k].side = conns[k].side
             /\ conns'[k].state = "cut" => conns[k].state = "cut"
    <3>1. {"candidate"} \in SUBSET Sides
      BY DEF Sides
    <3> QED
      BY <1>6, <3>1, CloseFrees DEF TrustedDrained, Shut
  <2>2. Name("trusted") \in Names /\ owner[Name("trusted")] # "own"
    BY <1>2, <1>6 DEF TrustedDrained, Past, Stages, Sides, Orderly, Draining
  <2>3. expired' \/ \A k \in Clients : InUse(k) => conns[k].side # "trusted"
    BY <1>6 DEF TrustedDrained, Drained, InUse
  <2> QED
    BY <1>1, <1>6, <2>1, <2>2, <2>3, StopGoesOn
    DEF TrustedDrained, Shut, Goto, Starting, Draining, Name
\* The last of the two shutdowns: what is still in use is on neither side.
<1>7. CASE CandidateDrained
  <2>1. ASSUME NEW k \in Clients, InUse(k), ~expired
        PROVE  FALSE
    <3>1. conns[k].side \in Sides
      BY <2>1 DEF BaseInv, Sided, InUse, Held
    <3>2. conns[k].side # "trusted"
      BY <1>7, <2>1 DEF CandidateDrained, Orderly
    <3>3. conns[k].side # "candidate"
      BY <1>7, <2>1 DEF CandidateDrained, Drained, InUse
    <3> QED
      BY <3>1, <3>2, <3>3 DEF Sides
  <2> QED
    BY <1>1, <1>7, <2>1, StopEnds DEF CandidateDrained
<1>8. ASSUME NEW s \in Sides, ListenerFails(s)
      PROVE  StopInv'
  <2>1. /\ \A n \in Names : owner'[n] = "own" => owner[n] = "own"
        /\ \A k \in Clients :
             /\ InUse(k)' => InUse(k) /\ conns'[k].side = conns[k].side
             /\ conns'[k].state = "cut" => conns[k].state = "cut"
    <3>1. {s} \in SUBSET Sides
      OBVIOUS
    <3> QED
      BY <1>8, <3>1, CloseFrees DEF ListenerFails
  <2>2. UNCHANGED <<pc, c, expired>> /\ pc \in Past
    BY <1>8 DEF ListenerFails, Accepting, Past, Stages
  <2> QED
    BY <1>1, <1>2, <2>1, <2>2, StopGoesOn
    DEF Orderly, Past, Name, Draining, Sides
\* Nobody is accepted behind the first shutdown.
<1>9. ASSUME NEW k \in Clients, ConnStep(k)
      PROVE  StopInv'
  <2>1. /\ \A j \in Clients : j # k => conns'[j] = conns[j]
        /\ UNCHANGED <<pc, c, exit, owner, failed, expired>>
        /\ pc # "exited" /\ conns[k] \in Conn
    BY <1>9, ConnBase DEF BaseInv, Types
  <2>2. CASE Connect(k)
    <3>1. conns'[k].state = "queued"
      BY <2>2 DEF Connect, BaseInv, Types
    <3> QED
      BY <1>1, <2>1, <3>1, StopGoesOn DEF InUse, Orderly, Name
  <2>3. CASE Read(k) \/ Answer(k) \/ DropSilent(k)
    <3>1. InUse(k)
      BY <2>3 DEF Read, Answer, DropSilent, InUse
    <3>2. PICK state \in {"active", "refused", "answered", "dropped"} :
            conns'[k] = [conns[k] EXCEPT !.state = state]
      BY <2>3, SetBase
      DEF Read, Answer, DropSilent, ConnStates, Held, BaseInv
    <3>3. conns'[k].state # "cut" /\ conns'[k].side = conns[k].side
      BY <2>1, <3>2 DEF Conn
    <3> QED
      BY <1>1, <2>1, <3>1, <3>3, StopGoesOn DEF InUse, Orderly, Name
  <2>4. CASE Accept(k)
    <3>1. PICK state \in {"open", "refused"} :
            conns'[k] = [conns[k] EXCEPT !.state = state]
      BY <2>4, SetBase DEF Accept, ConnStates, Held, BaseInv
    <3>2. conns'[k].state # "cut" /\ conns'[k].side = conns[k].side
      BY <2>1, <3>1 DEF Conn
    <3>3. /\ pc \notin Starting
          /\ pc \in Draining => conns[k].side # "trusted"
      BY <2>4 DEF Accept, Accepting, Starting, Draining, Orderly
    <3>4. \A j \in Clients : conns'[j].state # "cut"
      BY <2>1, <3>2 DEF Orderly
    <3>5. Orderly'
      BY <2>1, <3>2, <3>3, <3>4 DEF Orderly, Name, InUse, Draining
    <3> QED
      BY <1>1, <3>4, <3>5 DEF CutForCause
  <2> QED
    BY <1>9, <2>2, <2>3, <2>4 DEF ConnStep
<1>10. ASSUME NEW n \in Names, Squat(n) \/ Leave(n)
       PROVE  StopInv'
  <2>1. /\ UNCHANGED <<pc, c, exit, failed, expired, conns>>
        /\ \A m \in Names : owner'[m] = "own" => owner[m] = "own"
    BY <1>10 DEF Squat, Leave, BaseInv, Types
  <2>2. pc \in Draining => Name("trusted") \in Names
    BY <1>2 DEF Draining, Past, Stages, Sides
  <2>3. Orderly'
    BY <2>1, <2>2 DEF Orderly, Name, InUse
  <2> QED
    BY <1>1, <2>1, <2>3 DEF CutForCause
<1>11. CASE SignalArrives
  <2>1. CASE pc = "load" /\ Ends("killed")
    BY <1>1, <2>1, StopEnds
  <2>2. CASE UNCHANGED <<pc, c, exit, owner, failed, expired, conns>>
    BY <1>1, <2>2 DEF Orderly, CutForCause, Name, InUse
  <2> QED
    BY <1>11, <2>1, <2>2 DEF SignalArrives
<1>12. CASE Restart
  <2>1. pc' = "load" /\ \A k \in Clients : conns'[k].state = "none"
    BY <1>12 DEF Restart, NoConn
  <2> QED
    BY <1>1, <2>1 DEF Orderly, CutForCause, InUse, Starting, Draining
<1>13. CASE Expire
  BY <1>1, <1>13 DEF Expire, Orderly, CutForCause, Name, InUse
<1>14. CASE UNCHANGED vars
  BY <1>1, <1>14 DEF vars, Orderly, CutForCause, Name, InUse
<1> QED
  BY <1>3, <1>4, <1>5, <1>6, <1>7, <1>8, <1>9, <1>10, <1>11, <1>12, <1>13, <1>14
  DEF Next, Run, ConnStep

\* An accepted connection is cut only by the end of the shared time, a failed
\* listener or a kill: what the first shutdown drained stays drained while the
\* second waits, with any clients whatever.
THEOREM CutsHaveCause == Spec => []CutForCause
<1>1. Init => StopInv
  BY BaseInit
  DEF Init, StopInv, Orderly, CutForCause, InUse, NoConn, Starting, Draining
<1>2. StopInv /\ [Next]_vars => StopInv'
  BY StopStep
<1>3. StopInv => CutForCause
  BY DEF StopInv
<1> QED
  BY <1>1, <1>2, <1>3, PTL DEF Spec
-----------------------------------------------------------------------------
(***************************************************************************)
(* Clients and inputs.  What runs has passed the checks ahead of it, and no   *)
(* configuration asks for a certificate where there is none.                 *)
(***************************************************************************)
Placements == {"model", "mcp", "knowledge"}

Checked ==
  /\ pc \in Past \ {"start"} => Startable
  /\ pc \in {"serving", "drain trusted", "drain candidate"} =>
       \A p \in Placements : Identities(c)[p].how # "fails"
  /\ exit # "panicked"

ClientInv == BaseInv /\ Checked

\* The Model Proxy takes the certificate only beside an identity that has it.
LEMMA NoPanic ==
  ASSUME Valid(c), NEW p \in Placements
  PROVE  Identities(c)[p].how # "panics"
<1>1. GrpcIdentity(c, c["mcp.address"], c["mcp.server_name"]).how # "panics"
  BY DEF GrpcIdentity, Certificate, Uses
<1>2. GrpcIdentity(c, c["knowledge.address"], c["knowledge.server_name"]).how # "panics"
  BY DEF GrpcIdentity, Certificate, Uses
<1>3. ModelIdentity(c).how # "panics"
  <2>1. ModelProxyValid(c)
    BY DEF Valid
  <2>2. CASE c["model_proxy.url"] = "" \/ c["model_proxy.identity_mode"] # "mtls"
    BY <2>2 DEF ModelIdentity, Uses
  <2>3. CASE /\ c["model_proxy.url"] # "" /\ c["model_proxy.identity_mode"] = "mtls"
    <3>1. c["identity.mode"] = "mtls"
      BY <2>1, <2>3 DEF ModelProxyValid
    <3> QED
      BY <2>3, <3>1 DEF ModelIdentity, Uses, Certificate
  <2> QED
    BY <2>2, <2>3
<1>4. CASE p = "model"
  BY <1>3, <1>4 DEF Identities
<1>5. CASE p = "mcp"
  BY <1>1, <1>5 DEF Identities
<1>6. CASE p = "knowledge"
  BY <1>2, <1>6 DEF Identities
<1> QED
  BY <1>4, <1>5, <1>6 DEF Placements

LEMMA ClientStep ==
  ASSUME ClientInv, [Next]_vars
  PROVE  ClientInv'
<1> USE DEF ClientInv
<1>1. BaseInv'
  BY BaseStep
<1>2. ASSUME NEW how, how # "panicked", Ends(how)
      PROVE  ClientInv'
  BY <1>1, <1>2 DEF Ends, Checked, Past
\* A step that keeps the stage, or goes to one that asks for nothing more.
<1>3. ASSUME c' = c, exit' = exit,
             \/ pc' = pc
             \/ pc = "bind trusted" /\ pc' = "bind candidate"
             \/ pc = "bind candidate" /\ pc' = "build"
             \/ pc \in {"serving", "drain trusted"}
                  /\ pc' \in {"drain trusted", "drain candidate"}
      PROVE  ClientInv'
  <2>1. pc' \in Past \ {"start"} => Startable'
    BY <1>3 DEF Checked, Past, Stages, Startable
  <2>2. pc' \in {"serving", "drain trusted", "drain candidate"} =>
          \A p \in Placements : Identities(c)[p].how # "fails"
    BY <1>3 DEF Checked
  <2> QED
    BY <1>1, <1>3, <2>1, <2>2 DEF Checked
<1>4. CASE Load
  <2>1. CASE c' # Rejected /\ Goto("start")
    BY <1>1, <2>1 DEF Goto, Checked, Past
  <2> QED
    BY <1>2, <1>4, <2>1 DEF Load
<1>5. CASE Start
  <2>1. CASE Startable /\ Goto("bind trusted")
    BY <1>1, <1>5, <2>1 DEF Start, Goto, Checked, Startable
  <2> QED
    BY <1>2, <1>5, <2>1 DEF Start
<1>6. CASE BindTrusted
  <2>1. CASE Goto("bind candidate")
    BY <1>3, <1>6, <2>1 DEF BindTrusted, Goto
  <2> QED
    BY <1>2, <1>6, <2>1 DEF BindTrusted, Listen
<1>7. CASE BindCandidate
  <2>1. CASE Goto("build")
    BY <1>3, <1>7, <2>1 DEF BindCandidate, Goto
  <2> QED
    BY <1>2, <1>7, <2>1 DEF BindCandidate, Listen
<1>8. CASE Build
  <2> DEFINE hows == {Identities(c)[p].how : p \in {"model", "mcp", "knowledge"}}
  <2>1. "panics" \notin hows
    BY <1>8, InForce, NoPanic DEF Build, BaseInv, Loaded, Past, Stages, Placements
  <2>2. CASE {"panics", "fails"} \cap hows = {} /\ Goto("serving")
    <3>1. \A p \in Placements : Identities(c)[p].how # "fails"
      BY <2>2 DEF Placements
    <3>2. Startable
      BY <1>8 DEF Build, Checked, Past, Stages
    <3> QED
      BY <1>1, <1>8, <2>2, <3>1, <3>2 DEF Build, Goto, Checked, Startable
  <2> QED
    BY <1>2, <1>8, <2>1, <2>2 DEF Build
<1>9. CASE Signalled \/ TrustedDrained
  BY <1>3, <1>9 DEF Signalled, TrustedDrained, Shut, Goto
<1>10. CASE ServeReturns \/ CandidateDrained \/ MaterialFails \/ Kill
  BY <1>2, <1>10 DEF ServeReturns, CandidateDrained, MaterialFails, Kill
<1>11. CASE SignalArrives
  BY <1>2, <1>3, <1>11 DEF SignalArrives
<1>12. CASE Restart
  BY <1>1, <1>12 DEF Restart, Checked, Past
<1>13. ASSUME NEW k \in Clients, ConnStep(k)
       PROVE  ClientInv'
  BY <1>3, <1>13, ConnBase DEF BaseInv
<1>14. CASE \/ Expire \/ \E s \in Sides : ListenerFails(s)
            \/ \E n \in Names : Squat(n) \/ Leave(n)
            \/ UNCHANGED vars
  BY <1>3, <1>14 DEF Expire, ListenerFails, Squat, Leave, vars
<1> QED
  BY <1>4, <1>5, <1>6, <1>7, <1>8, <1>9, <1>10, <1>11, <1>12, <1>13, <1>14
  DEF Next, Run, ConnStep

LEMMA ClientInit == Init => ClientInv
BY BaseInit DEF Init, ClientInv, Checked, Past

\* What the Model Proxy is shown under any accepted configuration: the
\* certificate only if both modes are mtls and the URL is no plain one, no
\* identity exactly over a plain URL under mtls, and the bearer token only under
\* the development switch or a disabled mode, which is the one way around it
\* (validate against Relay's client).
THEOREM ModelProxyIdentity ==
  ASSUME NEW d, Valid(d), d["model_proxy.url"] # ""
  PROVE  LET mode == d["model_proxy.identity_mode"]
             how == ModelIdentity(d).how
         IN /\ how = "certificate" =>
                 /\ mode = "mtls" /\ d["identity.mode"] = "mtls"
                 /\ d["model_proxy.url"] \notin HttpUrls
            /\ how = "plaintext" <=> mode = "mtls" /\ d["model_proxy.url"] \in HttpUrls
            /\ how = "bearer" =>
                 /\ d["model_proxy.token"] # ""
                 /\ \/ mode = "development" /\ d["development.enabled"]
                    \/ mode = "disabled"
            /\ how = "fails" => mode = "disabled" /\ d["model_proxy.token"] = ""
            /\ how \in {"certificate", "plaintext", "bearer", "fails"}
<1> DEFINE mode == d["model_proxy.identity_mode"]
           how == ModelIdentity(d).how
<1>1. \/ mode = "development" /\ d["model_proxy.token"] # "" /\ d["development.enabled"]
      \/ mode = "mtls" /\ d["identity.mode"] = "mtls"
      \/ mode = "disabled"
  BY DEF Valid, ModelProxyValid
<1>2. CASE mode = "mtls"
  <2>1. how = IF d["model_proxy.url"] \in HttpUrls THEN "plaintext" ELSE "certificate"
    BY <1>1, <1>2 DEF ModelIdentity, Uses, Certificate
  <2> QED
    BY <1>1, <1>2, <2>1
<1>3. CASE mode # "mtls"
  <2>1. how = IF d["model_proxy.token"] = "" THEN "fails" ELSE "bearer"
    BY <1>3 DEF ModelIdentity, Uses
  <2> QED
    BY <1>1, <1>3, <2>1
<1> QED
  BY <1>2, <1>3

\* With any configuration validate accepts, the process does not panic, and
\* under mtls Control, MCP and Knowledge are reached with the certificate.
THEOREM IdentityIsSound == Spec => []SoundIdentity
<1>1. ClientInv /\ [Next]_vars => ClientInv'
  BY ClientStep
<1>2. ASSUME ClientInv, pc = "serving", c["identity.mode"] = "mtls",
             NEW p \in {"control", "mcp", "knowledge"}
      PROVE  Identities(c)[p].how \in {"none", "certificate"}
  <2>1. Identities(c)[p].how # "fails"
    BY <1>2 DEF ClientInv, Checked, Past, Stages, Startable, Placements
  <2>2. ASSUME NEW address, NEW name
        PROVE  GrpcIdentity(c, address, name).how \in {"none", "certificate", "fails"}
    BY <1>2 DEF GrpcIdentity, Certificate, Uses
  <2>3. Identities(c)[p].how \in {"none", "certificate", "fails"}
    BY <2>2 DEF Identities
  <2> QED
    BY <2>1, <2>3
<1>3. ClientInv => SoundIdentity
  BY <1>2 DEF ClientInv, Checked, SoundIdentity
<1> QED
  BY <1>1, <1>3, ClientInit, PTL DEF Spec

LEMMA MaxOfOne ==
  ASSUME NEW i \in Nat
  PROVE  Max({i}) = i
BY DEF Max

\* In an accepted document a name has one entry.
LEMMA OneEntry ==
  ASSUME NEW e, Accepted(e), NEW i \in DOMAIN e.inputs
  PROVE  LET n == e.inputs[i].name
         IN /\ n \in InputNames(e) /\ Entries(e, n) = {i}
            /\ Handled(e, n) # {} => Handled(e, n) = {i}
BY DEF Accepted, InputsDistinct, InputNames, Entries, Handled

\* What the server serves is what the envelope declares, for any envelope
\* that Parse accepts.
THEOREM InputsAsDeclared == Spec => []EnvelopeDetermines
<1>1. ClientInv /\ [Next]_vars => ClientInv'
  BY ClientStep
<1>2. ASSUME ClientInv, pc = "serving",
             NEW i \in DOMAIN ParsedEnvelope(c).inputs
      PROVE  LET e == ParsedEnvelope(c)
                 kept == NewInputs(e)
                 n == e.inputs[i].name
             IN /\ kept.declared[n] = e.inputs[i].digest
                /\ n \in DOMAIN kept.handles => kept.handles[n] = e.inputs[i].handle
  <2> DEFINE e == ParsedEnvelope(c)
             n == e.inputs[i].name
  <2>1. Accepted(e)
    <3>1. Valid(c) /\ ~Disabled(c)
      BY <1>2, InForce
      DEF ClientInv, Checked, BaseInv, Loaded, Past, Stages, Startable
    <3> QED
      BY <3>1 DEF Valid, LaunchValid
  <2>2. /\ n \in InputNames(e) /\ Entries(e, n) = {i}
        /\ Handled(e, n) # {} => Handled(e, n) = {i}
    BY <2>1, <1>2, OneEntry
  <2>3. i \in Nat
    <3>1. Valid(c) /\ ~Disabled(c)
      BY <1>2, InForce
      DEF ClientInv, Checked, BaseInv, Loaded, Past, Stages, Startable
    <3>2. e \in Document
      BY <3>1, DocumentAssumption DEF Valid, LaunchValid, ParsedEnvelope
    <3>3. e.inputs \in Seq(Input)
      BY <3>2 DEF Document
    <3> QED
      BY <1>2, <3>3
  <2> HIDE DEF e
  <2>4. NewInputs(e).declared[n] = e.inputs[i].digest
    BY <2>2, <2>3, MaxOfOne DEF NewInputs
  <2>5. n \in DOMAIN NewInputs(e).handles =>
          NewInputs(e).handles[n] = e.inputs[i].handle
    BY <2>2, <2>3, MaxOfOne DEF NewInputs
  <2> QED
    BY <2>4, <2>5 DEF e
<1>3. ClientInv => EnvelopeDetermines
  BY <1>2 DEF EnvelopeDetermines
<1> QED
  BY <1>1, <1>3, ClientInit, PTL DEF Spec

-----------------------------------------------------------------------------
(***************************************************************************)
(* Types and sources: what is in force is what was loaded.                  *)
(***************************************************************************)
\* Launch facts, placements and secrets in force are the environment's, for
\* any file.
THEOREM LaunchIsFromEnvironment == Spec => []FromEnvironment
<1>1. BaseInv /\ [Next]_vars => BaseInv'
  BY BaseStep
<1>2. ASSUME BaseInv, c # Rejected, NEW k \in EnvironmentOnly, c[k] # ""
      PROVE  SetAs(env, k, c[k])
  <2>1. Gives(file, env, c)
    BY <1>2 DEF BaseInv, Loaded, Gives
  <2> QED
    BY <1>2, <2>1, LaunchFromEnvironment
<1>3. BaseInv => FromEnvironment
  BY <1>2 DEF FromEnvironment, SetAs
<1> QED
  BY <1>1, <1>3, BaseInit, PTL DEF Spec

\* What BaseInv leaves of the types.
Exits == {"none", "rejected", "failed", "panicked", "stopped", "killed"}

RestTypes ==
  /\ exit \in Exits
  /\ signal \in BOOLEAN /\ expired \in BOOLEAN
  /\ faults \in 0..MaxFaults

LEMMA RestStep ==
  ASSUME RestTypes, [Next]_vars
  PROVE  RestTypes'
<1> USE DEF RestTypes, Exits
<1>1. MaxFaults \in Nat
  BY ClientAssumption
<1>2. Fault => faults' \in 0..MaxFaults
  BY <1>1 DEF Fault
<1>3. CASE Load \/ Start \/ BindTrusted \/ BindCandidate \/ Build
  BY <1>3 DEF Load, Start, BindTrusted, BindCandidate, Listen, Build, Ends, Goto
<1>4. CASE ServeReturns \/ Signalled \/ TrustedDrained \/ CandidateDrained \/ Expire
  BY <1>4 DEF ServeReturns, Signalled, TrustedDrained, CandidateDrained, Expire, Ends,
              Shut, Goto
<1>5. CASE MaterialFails \/ SignalArrives \/ Kill \/ Restart
  BY <1>2, <1>5 DEF MaterialFails, SignalArrives, Kill, Restart, Ends
<1>6. ASSUME NEW s \in Sides, ListenerFails(s)
      PROVE  RestTypes'
  BY <1>2, <1>6 DEF ListenerFails
<1>7. ASSUME NEW n \in Names, Squat(n) \/ Leave(n)
      PROVE  RestTypes'
  BY <1>2, <1>7 DEF Squat, Leave
<1>8. ASSUME NEW k \in Clients, ConnStep(k)
      PROVE  RestTypes'
  BY <1>8 DEF ConnStep, Connect, Accept, Read, Answer, DropSilent
<1>9. CASE UNCHANGED vars
  BY <1>9 DEF vars
<1> QED
  BY <1>3, <1>4, <1>5, <1>6, <1>7, <1>8, <1>9 DEF Next, Run, ConnStep

\* Whatever is given, the state has its types; and a configuration in force has
\* every known key and an identity mode for the proxy.
THEOREM TypeCorrect == Spec => []TypeOK
<1>1. Init => RestTypes
  <2>1. 0 \in 0..MaxFaults
    BY ClientAssumption
  <2> QED
    BY <2>1 DEF Init, RestTypes, Exits
<1>2. BaseInv /\ RestTypes /\ [Next]_vars => BaseInv' /\ RestTypes'
  BY BaseStep, RestStep
<1>3. ASSUME BaseInv, RestTypes
      PROVE  TypeOK
  <2>1. <<file, env>> \in Configurations
    BY <1>3, PairAssumption DEF BaseInv, Loaded, Given
  <2>2. c # Rejected => DOMAIN c = Known /\ c["model_proxy.identity_mode"] # ""
    <3>1. c # Rejected => Gives(file, env, c)
      BY <1>3 DEF BaseInv, Loaded, Gives
    <3>2. Gives(file, env, c) => Sourced(file, env, c) /\ c[ProxyMode] # ""
      BY Precedence, ModeIsSet
    <3> QED
      BY <3>1, <3>2 DEF Sourced, ProxyMode
  <2>3. conns \in [Clients -> [state : ConnStates, side : Sides \cup {"none"}, uid : Nat]]
    <3>1. ClientUIDs \cup {0} \subseteq Nat
      BY ClientAssumption
    <3> QED
      BY <1>3, <3>1 DEF BaseInv, Types, Conn
  <2> QED
    BY <1>3, <2>1, <2>2, <2>3 DEF TypeOK, BaseInv, Types, RestTypes, Exits
<1> QED
  BY <1>1, <1>2, <1>3, BaseInit, PTL DEF Spec
=============================================================================
