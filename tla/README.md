# A verified model of anvilkit-job-access-sidecar

TLA+ modules, TLC configurations and TLAPS proofs for the access sidecar of a
Job Pod: the one process of the Pod that holds the Job's network identity and
speaks to Control. Paths below are relative to the repository (`src/`).

## 1. Inventory

### The system

The sidecar serves two abstract Unix sockets. The *trusted* harness (UID 0) may
read the execution scope, stage, load and read inputs, upload artifacts, submit
and read results, report progress and use three relays. The *candidate* (UID
10001) may read inputs and use the model relay. Every connection carries one
request and closes.

Before every protected request the sidecar reads the Pod's registration from
Control, then the clock, and decides whether the Pod has execution authority for
the purpose of the request *now*. Nothing is cached between requests. The
process keeps its state in memory and is started again when it dies.

| Part | Source | State | Operations | What is hard |
|---|---|---|---|---|
| authority decision | `internal/scope/scope.go` 100-183 | none | `Registration.Confirm` | order of early returns, two exclusive deadlines, the exception for results |
| access server | `internal/server/server.go` | one request per connection | `guard`, the handlers of `Trusted` and `Candidate` | concurrent handlers; the registration read may be stale when used; the answer's code decides whether the harness retries |
| staged inputs | `server.go` 45-106 | `Inputs.bytes` | `Stage`, `Get`, `Handle` | a PUT and a load racing with readers; lost on restart |
| Control client | `scope.go` 219-345, 500-659 | none | `Lookup`, `Load`, `Submit`, `AcceptedStage`, `PriorStage`, `Progress` | lost answers; calls handled after their timeout |
| artifact transfer | `scope.go` 356-457 | none (Control and the store keep it) | `Upload`, `put` | reentry under a command identity; several object versions; death between steps |
| workload identity | `internal/identity/reloader.go`, `material.go` | `current`, `failures`, the poller | `New`, `Start`, `Stop`, `Reload` | files read one by one while the mount is replaced |
| rotating credentials | `internal/identity/credentials.go` | the connection tracker, the HTTP pool | `ServerHandshake`, `closeRetired`, `HTTPTransport` | a handshake or a call that spans a reload |
| relays | `internal/scope/relay.go`, `mcp.go`, `knowledge.go` | none | `Forward`, `Bind`, `Call`, `Search` | deadlines against timeouts |
| lifecycle | `internal/app/app.go` 82-214, `cmd/` | listeners, servers | `Run` | one listener failing; shutdown of two servers under one timeout |
| sockets | `internal/sockets` | listeners | `Create`, `Accept` | both names or none; closing at accept |
| configuration, envelope | `internal/config`, `internal/envelope` | none | `LoadFrom`, `validate`, `Parse` | keys validated one by one and used together |
| peer tokens, peer policy | `internal/peer`, `identity/spiffe.go`, `authz.go` | none | pure functions | tables of cases |

### How the parts interact

- A request passes `guard` (UID, nonce, token; then the proof is set on the
  response), the socket's route set, `resolver.Confirm` -> `Client.Confirm`
  (`Lookup`, clock, `Registration.Confirm`), and its handler, which calls Control
  and the store and answers.
- Handlers share `Inputs` (under its lock), Control's attempt and transfers,
  and the connections whose trust follows the `Reloader`.
- The poller of the `Reloader` publishes material by one atomic store and runs
  callbacks: `closeRetired` for server connections, `CloseIdleConnections` for the
  HTTP client. Handshakes read the material in force when they begin.

### What makes each part correct

- Authority: no grant unless authority held at one instant of the request; no
  final refusal unless the registration lacked it; one answer per request.
- Inputs: only declared bytes are served, and staged ones stay.
- Results: everyone is told of the one result Control accepted.
- Transfers: one object version per command identity, holding the bytes of
  whoever is told of it; every upload ends, and none is refused that could go on.
- Identity: only valid material in force; the mounted set is reached; `Stop`
  leaves nothing running.
- Relays: each command is acted on once, in time, and answered as its own; a caller
  is told that a call is over only once it is, and learns what became of it if it repeats.
- Configuration: what is accepted is sound to run with.
- Lifecycle: both names or none; no UID on both sides; the process comes to serve, and
  stops when it is told.
- Rotation: after a retirement no connection lives on under the retired root,
  but for those the callbacks cannot see.

The hazards behind these properties, each at its line, are in `PROJECT.json`.

## 2. Modules

| Module | Models | Runs |
|---|---|---|
| `Authority` | `Registration.Confirm` and the promise `Authorized` | through `Access` |
| `Access` | guard, dispatch, decision, handlers, `Inputs`, Control's acceptance | `authority`, `sharing`, `result_fence` |
| `AuthorityGate` | abstract: what the server promises about authority | `authority` |
| `Transfer` | `Client.Upload` with retries, late calls, restarts | `transfer` |
| `WriteOnce` | abstract: a register per key, written once | `transfer` |
| `Relay` | `Bind`, `BindCall`, `BindSearch`, `Forward`, `Call`, `Search` and their handlers | `relay`, `relay_learned` |
| `CallOnce` | abstract: one call for each request, and callers told of it truthfully | `relay` |
| `Reloader` | `Reloader`, `Material` | `reloader` |
| `Rotation` | `connTracker`, `HTTPTransport`, on top of `Reloader` | `rotation`, `rotation_accepted`, `rotation_next_call` |
| `Channel` | the gRPC client credentials, on top of `Reloader` | `channel` |
| `Envelope` | `envelope.Parse`, `NewInputs` | through `Lifecycle` |
| `Config` | `config.LoadFrom`, `validate`, the identity of each connection | through `Lifecycle` |
| `Lifecycle` | `main`, `Run`, `sockets.Create`, `Accept`, `Close` | `lifecycle` |
| `Access_proofs`, `Transfer_proofs`, `Relay_proofs`, `Reloader_proofs`, `Rotation_proofs`, `Channel_proofs`, `Lifecycle_proofs` | proofs about the module of that name | |
| `Gate_proofs` | proofs about refusals and the refinement of `AuthorityGate` by `Access` | |
| `MCAccess`, `MCTransfer`, `MCRelay`, `MCReloader`, `MCRotation`, `MCChannel`, `MCLifecycle` | small instances | |

### Access and Authority

A connection's `pc` follows the code: `guard`, `route`, `lookup`, `decide`, `act`
(and `download` inside a load), `done`. Each point where the handler waits on
someone else, or where another actor may move between two reads, is a step
boundary: between the lookup and the clock, between the decision and the
action. `Confirm(r, now, purpose)` is the chain of early returns in the code's
order; `Authorized` says the same without an order and is what the properties use.

`row` is Control's registration of the Pod, `Unregistered` when there is none. Its
fields are what the decision tells apart: the answer names the asked Pod
(`own`) and the envelope's attempt (`named`), its records belong together
(`coherent`), its epochs, states, control intent and deadlines. `ControlMoves`
replaces it at any time. `stage` is Control's accepted result; `late` holds the
submissions whose caller gave up and which Control may still handle.
`fit` says whether a body is within its route's limit and decodes, and `Screened`
what a handler refuses before Control is asked: those refusals come ahead of the
authority, so they are told to a peer that has none. Every route of the two sockets
has its decision here, but for the three relays: `Upload` is an upload seen from the
server, whose steps are the module `Transfer`, and `Unavailable` the catch-all below
`/v1/knowledge/`, which confirms the scope before it says that there is nothing.
The codes of a refusal that Control gives after the decision (`answerActionError`)
are one, `ACTION_REFUSED`: they pass on Control's judgement, and `RefusalJustified`
speaks of the sidecar's own. The 500 of `guard` for a proof that cannot be computed
is left out, since the token check ahead of it fails first on the same condition.

`told`, `known`, `held` and `lost` are history variables. `held[c]` says that
authority for the purpose of c's request held at some instant since it arrived,
`lost[c]` that the last registration Control had for the Pod lacked it. They end
with the request.

### Transfer

One worker per upload in progress, `begin` -> `put` -> `finalize` -> `done`. Control
keeps one transfer for each command identity (`Key`: class and the first part of
the digest, as the code cuts it); the request digest (`Binding`) covers class,
digest and media type, so a different request under the same identity is refused. An
upload of a class outside `Classes` is refused before Control is asked.
Control withholds the upload capability (`Withholds`) of a rejected transfer, and of a
begun one once the instance is no longer current; either ends the upload.
The store appends a version for each PUT, or keeps something else. Each call may
fail before it is handled, be handled with its answer lost, or outlive its caller
(`late`). `Crash` breaks every upload in progress; `Replace` makes another instance
current, for good.

### Reloader and Rotation

A `Reload` call reads the three files one after the other, twice: for the digest
and for the load. `disk` is the mounted generation and `Swap` replaces it between
any two reads, also by nothing at all. What a call read is a list of generations,
from which `Material` takes the certificate, the key and the bundle. `Stop` is
three steps: cancel, the poller returns, `Stop` returns.

`Rotation` adds server connections (`free`, `shaking`, `open`) with the roots their
handshake took and the root that verified the peer, and the HTTP client's pool
(`dialing`, `idle`, `busy`) with its calls. `NotifyConns` is the callback step. The
pool's own behaviour (`CallStarts`, `Hand`, `CallEnds`, `IdleCloses`) is net/http's
and external. `missed` remembers the connections the last retirement could not
reach. The server credentials are part of the identity package and its tests; the
sidecar's own `Run` uses the HTTP transport and the gRPC client credentials.

`Channel` is one gRPC connection: `Dial` takes the bundle in force, `Handshake`
accepts the server if its root is in it. No callback closes such a connection; what
it promises (`ChannelTrust`) is about the handshake. The server's certificate
moves too (`ServerMoves`), and the connection drops. The library is lazy: an idle
connection is dialled only for a call (`Call`, `wanted`), the first time and again, so
that `Reconnects` says something only of a connection to which calls keep coming.

### Relay

A connection goes `screen` -> `confirm` -> `upstream` (-> `stream` for a model
answer) -> `done`, in the order of the handlers: size, configured upstream, syntax,
scope, binding, call. `Bind` gives the bound request: `Identity` is the caller's id
for a model call and namespaced by the instance for a tool call, `Digest` covers the
binding and the exact bytes, the deadline is the earlier of the caller's and the
attempt's, cut to the `Millisecond`. `Home` puts each connection on an instance, so
that the instance Control has replaced goes on sending. The authority decision is
`Authority`'s; in `Relay` it is what remains of it for a relay: the instance is
current and the attempt's deadline not reached. It is taken once, at `Confirm`: what
happens between it and the upstream is left to the deadline the call carries.

Three timers end a call (`TimesOut`): the connection's read timeout, which in
net/http *may* cancel the context of a request whose body was read (`ContextEnded`),
and the relay's own (`OwnTimerUp`): `Forward`'s bound, `Call`'s and `Search`'s
timeout, and the write deadline of an open stream. An answer
written past the connection's write deadline is `LOST`. A call that ends without its
upstream's answer never arrived, was acted on, or is `late`. The upstreams are
external: they act on a call once, find it again by identity, refuse another digest
under it and begin none at or after its deadline (relay.go 122-125, mcp.go 47-54,
and the fakes of `app_test.go`). `CallOnce` is what all of it amounts to for those who
call: the mapping (`Begun`, `Ended`, `Asked`, `Told`) reads a call's beginning and end from
the upstreams and what each caller was told from the connections. `runs` and `said` are history: how often an upstream
acted for each command, and what was sent for it.

### Configuration, envelope, lifecycle

`Config` is written as functions: a layer maps the keys it sets to values (`Layer`),
one lies over another (`Over`), and `LoadFrom` is the environment over the file over the defaults, with the refused keys
looked for before the environment is applied, as in the code. A text stands for
itself; whether it matches its key's pattern is membership of `WellFormed`.
`Identities` is what `Run` builds from the result: for each of Control, the Model
Proxy, MCP and Knowledge a certificate, a bearer token, plaintext, nothing, a client
that is not built, or a panic (a certificate asked of a `nil` reloader).

`Envelope` keeps of each field only its agreement with its pattern, of the inputs
their names, digests and handles; `NewInputs` is what the server keeps of them.

`Lifecycle` is `main` and `Run` with one step for each stage: load, start, the two
binds, the clients, serving, the two drains. A failed stage ends the process, which
releases the names it held and cuts its connections. The kernel queues connections
from the bind on (`Connect`), the server takes them (`Accept`, which refuses other
UIDs), reads and answers them. `Squat` and `Leave` are another process of the Pod
holding an abstract name, `SignalArrives` is SIGTERM, which kills before `main` has
asked for it, `Expire` is the end of the time both shutdowns share.

## 3. Model checking

| Run | Instance and bounds | Shows |
|---|---|---|
| `authority` | 1 connection, 33 registrations and none (two good ones, a hold, and 14 defects, most also with the result accepted), clock 0..3 with deadlines at 2 and 3, bodies that fit or do not | `GrantedUnderAuthority`, `RefusalJustified`, `ProofNamesPeer`, `EveryRequestAnswered`, the refinement `ImplementsGate`, `TypeOK` |
| `sharing` | 2 connections, 2 contents, 2 inputs (one loaded by handle), rival results | `ServedAsDeclared`, `ResultsAgree`, `OnlyTrustedActs`, `StagedStays` |
| `transfer` | 2 workers, 3 uploads of one command identity, 2 faults | `AnsweredAsRequested`, `RefusedForGood`, the refinement `ImplementsWriteOnce`, `UploadSettles`, `TypeOK` |
| `relay` | 2 instances with a connection each, two tool calls or two model calls under one id, one of them with a deadline of its own, 1 fault, a millisecond of 2, the attempt's deadline at 3, clock 0..3 | `ActedOnce`, `ConflictMeansReuse`, `BegunInTime`, the refinement `ImplementsCallOnce`, `TypeOK` |
| `relay_learned` | 1 connection, every kind of request and of refusal, with and without a deadline of the caller's, 2 faults, the attempt's deadline at 3, clock 0..4 | `Learned` |
| `reloader` | poller and operator, 5 generations, 2 replacements | `Converges`, `StoppedIsQuiet`, `StopEnds`, `ReloaderTypeOK` |
| `rotation` | 1 server connection, 2 pooled connections, 2 calls, 3 replacements | `ServerTrust`, `PoolTrust`, `OnlyRetiredClosed` |
| `channel` | 1 gRPC connection, 4 generations, 3 replacements, 2 drops or moves of the server | `ChannelTrust`, `Reconnects` |
| `lifecycle` | the Job's configuration and its neighbours, 2 connections of 2 UIDs, 2 faults | `SoundIdentity`, `FromEnvironment`, `EnvelopeDetermines`, `NotBesideSquatter`, `OneSidePerUID`, `CutForCause`, `Stops`, `Serves`, `TypeOK` |
| `result_fence`, `rotation_accepted`, `rotation_next_call` | as the passing runs of their modules | disagreements of code and comments, section 5 |

Why the bounds are enough. The decision is per request and per registration: one
connection with every single defect, moved at any instant, meets every early
return, and the clock reaches the deadlines and the instant before each. What
requests share (inputs, the attempt's result) is contended for by two. A transfer
needs two workers to race for an identity, one fault to lose an answer and a
second to lose the retry's or to crash as well; three uploads collide on an
identity in each way two requests can (media type, content), and all share one
identity, since different ones have nothing in common. A relay needs two instances
under one command id for identities to meet, one fault to lose an answer or to
replace the instance, and a clock that reaches the attempt's deadline; that deadline
is no whole millisecond, so that cutting it down, up or not at all differ. The real
timers are minutes, and the instances keep their order (read < write <= call = relay).
In `relay_learned` a caller's deadline of 1 is past with its margin while the
attempt still has time, and the clock goes on to where the write deadline of a call
without one is past as well. A rotation needs three generations: the old root,
both, the new one; three replacements allow a root to return after it was retired.
Two replacements put a swap in each of the two passes of a reload. The
configurations of `lifecycle` change the Job's by one thing at a time, and by two
where `validate` relates two (the identity mode with what the Model Proxy is reached
by, the development switch with both).

The named bounds are `MaxTime`, `MaxFaults`, `MaxSwaps` and `MaxMoves`. `MaxTime` does
not cut a behaviour short: at the last instant every deadline that a decision or a
call is bound by has passed, and what a timer of the sidecar does after that is
end a call that can no longer begin; except in `sharing`, which has no clock (`MaxTime = 0`) because deadlines
are the matter of the other runs. Deadlock is checked in the `authority`, `sharing`,
`reloader` and `rotation` runs. The other systems may really stop: once the instance
is replaced and the uploads closed the harness asks nothing more (`transfer`), a
relay's callers are all answered (`relay`), the poller and the drops are over
(`channel`), the process was told to stop (`lifecycle`). Symmetry is declared only on
runs without liveness properties; in `relay` the instances are named by their
connections, so that exchanging the two exchanges all that tells them apart.

Fairness. A handler runs on its own goroutine and each of its calls has a
timeout, so `FairSpec` of `Access` is weak fairness of `Serve(c)`, that of
`Transfer` of `Handle(w)` and that of `Relay` of `Handle(c)`; the harness retries what
was answered as retryable (`Retry`, `Repeat`), and an upstream's call ends
(`Completes`). Nothing is assumed of Control, of the clock or of the store: a failed
call is a step of the handler, and failures are finitely many. That each call ends is
therefore assumed, from the timeouts `app.go` gives the clients, and not shown:
`EveryRequestAnswered` is about the paths of the handlers, and would not see a client
built without its timeout. In `Reloader` the
ticker fires (weak fairness of `Reload(poller)`) and a reload goes on. Between its
tick and its cancellation the poller's `select` chooses at random, which is strong
fairness of `PollerReturns`. `Channel` adds that the gRPC library dials once a call has come
and ends its handshakes; that calls come is not assumed but the premise
(`CallsComeAgain`) of `Reconnects`. `Lifecycle` has weak fairness of the process's own steps (`Run`, its timer
among them), of the kubelet's `Restart` and of a foreign holder's `Leave`: not of
handlers, clients or answers, which may take for ever.

## 4. Proofs

All theorems hold for every value of the constants that satisfies the named
assumptions of the modules.

Access (`RequestAssumption`, `RowAssumption`: Control's rows are closed under
acceptance, `InputAssumption`, `ClockAssumption`).

- `TypeCorrect`: `Spec => []TypeOK`.
- `GrantsAreAuthorized`: `Spec => []GrantedUnderAuthority`. The property is not
  inductive: at `decide` the handler holds a registration read earlier. The
  invariant `GrantInv` adds `ReadInWindow`: what a handler at `decide` has read was
  Control's row at an instant of its request, so that if it authorizes now it did
  authorize then (lemma `AuthorizedEarlier`: time only takes authority away), and
  the lemma `ConfirmSound`: the chain of early returns accepts only what `Authorized`
  does.
- `RefusalsAreJustified`: `Spec => []RefusalJustified`, in the other direction.
  `RefuseInv`: as long as a request has not seen authority lacking, the last
  registration authorizes it now (`Current`), and the one in hand did when it was
  read and has the same deadlines (`InHand`), so that the decision cannot refuse. It
  rests on a fact of Control's, which every step of `ControlMoves` keeps
  (`SameDeadline`): the deadlines of an attempt and of its operation do not move. Were
  one moved back between the lookup and the clock, a request could be refused by the
  earlier one it had read.
- `GateImplemented`: `Spec => ImplementsGate`, the refinement of `AuthorityGate`, from
  the two invariants: a grant finds authority held in the request, a refusal finds it
  lost, and every other step is one of the abstract connection's or stutters
  (`PhaseStep`, `NextGate`).
- `DecisionIsExact`, `DeadlineIsTheReason`: of the decision alone, `Confirm` accepts a
  registration of the asked Pod exactly when it is `Authorized`, and says
  `ErrDeadline` only where nothing but the deadlines is in the way.
- `OneResult`: `Spec => []ResultsAgree`. The accepted result is never replaced, and
  an answer of acceptance is given only with it.
- `ServesDeclared`: `Spec => []ServedAsDeclared`. Every staged content has the
  declared digest, whichever way it was staged, so every answer read from the
  stage has.
- `StagedInputsStay`: `Spec => StagedStays`, from the same invariant.
- `ProofsNamePeers`: `Spec => []ProofNamesPeer`. `PeerInv` follows the proof from the
  guard to the answer: what was dispatched passed the guard (`PeerState`).
- `CandidateOnlyReads`: `Spec => OnlyTrustedActs`, from `PeerInv` (who asks) and
  `GrantInv` (that authority held in the request). An acceptance by a submission whose
  request is gone (`late`) is not a request's step; the step that left the submission was.
- `FenceExtent`: `Spec => []FencedUnlessControlled`, what stands of `ResultFence`
  (section 5): the registration a handler acts on carries an operation of the current
  epoch that allows the request's purpose, so a result is past the fence only under a
  control intent. The invariant `ActInv`, beside `GrantInv`, says that the registration
  authorized the purpose at an instant not later than now: `Decide` confirms it, nothing
  until the answer replaces it (`ActsFrom`), and time does not go back (`ClockMoves`).

Transfer (`UploadAssumption`, which takes digests to be free of collisions, and
`TransferAssumption`: "no transfer" is neither a transfer nor a version).

- `AnswersAreOwn`: `Spec => []AnsweredAsRequested`, for any number of workers, retries,
  late calls and restarts. The property is about answers already given; the
  invariant `IInv` follows each upload to its answer (`WorkerInv`: before its PUT a
  worker has a transfer under its own binding, before its finalization a version the
  store has), says of Control that a finalized transfer names a stored version of the
  declared digest (`KeptInv`) and of late finalizations that their version is stored
  (`LateInv`). Its steps rest on one fact: versions and transfers only grow (`Grows`).
- `RefusalsAreForGood`: `Spec => []RefusedForGood`. The invariant `DeniedInv` joins
  it to `IInv`, which knows of a worker about to finalize that the transfer is under its own
  binding; a reason for a conflict, once there (`Denied`), lasts, because a transfer, once begun, keeps its binding and its end (`TransfersStay`).
- `WriteOnceImplemented`: `Spec => ImplementsWriteOnce`, the refinement. Every step
  moves at most one transfer and never a finalized one (`Moves`), and tells of a
  version only when it is the finalized one (`PromiseStep`).
- `TypeCorrect`: among it that what is finalized is a version the store assigned.

Relay (`RequestAssumption`, `TimeAssumption`, `CallAssumption`: "no call" is no call and "no
request" no request).

- `OwnAnswers`, `CommandsActOnce`, `ConflictsAreReuse`: `AnsweredOwnCall`, `ActedOnce`,
  `ConflictMeansReuse`, for any instances, ids, contents and repeats. The invariant
  `IInv` ties the upstreams' calls to what was bound (`UpstreamInv`: a call is that of a
  bound request under its identity and digest, and an upstream has acted for a command
  at most once and only if it has a call of it) and each connection's bound request to
  its request (`ConnInv`).
- `CallsBeginInTime`: the action property `BegunInTime`, late calls included, for any
  `Millisecond`: a call begins before the attempt's deadline and before the one its own
  caller asked for.
- `DeadlineIsTheEarlier`: of `Bind` alone, the bound deadline is the earlier of the
  attempt's and the caller's, cut back by less than a millisecond.
- `CallOnceImplemented`: `Spec => ImplementsCallOnce`, the refinement, for any instances,
  identities, repeats, late calls and timers. It needs, besides
  `IInv`, that a free connection asks for nothing and that only an answer that is no
  error tells of a state (`CallerIInv`). `AnsweredOwnCall` is the
  part of it about finished answers, which the run checks through the refinement. Every
  step begins or ends at most one call, and tells at
  most one caller (`AskingStep`, `AnswerPromised`, `CutPromised`, `PromiseStep`).

Reloader and what is built on it (`CallerAssumption`: the poller is a caller).

- `MaterialAlwaysValid`: `ReloaderSpec => []ReloaderTypeOK`, of which the heart is
  `current \in Materials`: torn reads publish only what validates.
- `StopQuiets`: `StoppedIsQuiet`. The invariant (`PollerGone`) adds that a poller that
  has returned is in no reload.
- `Rotation_proofs!TypeCorrect`: with it `CallsOwn`, one call for each connection in
  use.
- `ReloaderImplemented` (in `Rotation_proofs` and `Channel_proofs`): both are still the
  Reloader, `Spec => ReloaderSpec`, each of their steps one of its or a stutter, so that
  what is proved of it holds under the connections; `StopQuietsCallbacks` is one such
  consequence.
- `RetiredServerConnections`, `RetiredPoolConnections`: `ServerTrust` and `PoolTrust`
  under `Callers = {poller}`, as this process runs the Reloader. The invariant
  `TrustInv` adds `ReloadInHand` (what a reload in progress compares with is the
  material in force, which needs the single caller) and the two facts without
  the premise that nothing waits for its callbacks: before them, a connection may
  also be under a root of the previous material.
- `TrustedConnectionsSurvive`: `OnlyRetiredClosed`, from the same invariant.
- `Channel_proofs!HandshakesAreCurrent`: `ChannelTrust`, by the invariant `Captured`: a
  connection nothing was published since is under the bundle in force.

Lifecycle (`NameAssumption`: the names of accepted configurations are among `Names`,
`ClientAssumption`, `DocumentAssumption`, `PairAssumption`: a configuration is a file
and an environment). Of a configuration in force the proofs of the stages use only
that `validate` accepted it (lemmas `InForce`, `Apart`), so they hold for every file
and environment.

- `Precedence`: an accepted configuration has each key's value from the environment,
  else from the file, else from the defaults; the proxy's identity mode, unset, is the
  identity's; and the file sets no launch fact. It is about the layers themselves
  (`OverIs`, `Applied`, and `NamedOnce`: no two variables name one key).
- `LaunchIsFromEnvironment`: `FromEnvironment`, from it and from `BaseInv`.
- `TypeCorrect`: `TypeOK`. Of a configuration in force it says that every key is known
  and the proxy's identity mode set (`ModeIsSet`).
- `OneSide`: `OneSidePerUID`. `BaseInv`: nothing but an accepted configuration is in
  force past the load, and who is served is who its side expects (`Sided`).
- `BothNames`: `NotBesideSquatter`. `Bound`: a name once bound is kept up to serving.
- `CutsHaveCause`: `CutForCause`, for any number of connections. `Orderly`: nobody is
  served while the process starts; a drained side has no name to be reached by, so
  that what the first shutdown drained stays drained while the second waits.
- `IdentityIsSound`, `InputsAsDeclared`: `SoundIdentity`, `EnvelopeDetermines`. `Checked`:
  what runs has passed the checks ahead of it; `NoPanic`: the Model Proxy takes the
  certificate only beside an identity that has one; `OneEntry`: in an accepted
  envelope a name has one entry.
- `ModelProxyIdentity`: of an accepted configuration alone, what the Model Proxy is
  shown: the certificate only if both modes are `mtls` and the URL is not plain, the
  bearer token only with a token and under the development switch or a disabled mode.

Model-checked only: liveness (`EveryRequestAnswered`, `UploadSettles`, `Learned`,
`Converges`, `StopEnds`, `Reconnects`, `Stops`, `Serves`), which is out of the prover's
reach.

## 5. Disagreements of the code with its comments

Each of these is a run whose property states the comment, and fails.

- `ResultFence` (`scope.go:172`): the comment on `ForResult` says that a terminal
  or reconciling operation refuses a result. The code accepts one if the
  operation also carries a control intent. Control's acceptance decides in the
  end; the promise `Authorized` follows the code.
- `AcceptedWhileRooted` (`credentials.go:126-143`): a handshake begun before a
  retirement and ended after it leaves an open connection under the retired
  root, which the comments exclude. It lives until the next publication.
- `NextCallUnderCurrentTrust` (`credentials.go:242-246`): a client connection in use
  at a retirement goes back to the pool and carries later calls, while the
  comment says that the next request handshakes under current trust.

What does hold is stated by `FenceExtent` of the first, and by `ServerTrust` and
`PoolTrust` of the other two.

Met while modelling, without a run, since the text and the code can be set side by
side:

- README.md:36 says that `model_proxy.timeout` bounds one relayed call. `Forward` takes
  the later of it and the call's deadline with 30 seconds (`relay.go:165`, `Bound`), so a
  call with a later deadline is kept until that. The connection's read and write
  timeouts may end it earlier; the relay's timeout does not. No property says that a
  timer bounds a model call.
- README.md:17 has the same bytes reenter the same call and its answer relayed. A
  repeat of a finished model call that is read after the call's own deadline and 30
  seconds, while the attempt has time, opens its stream with a write deadline in the
  past (`relay.go:186`, `StreamDeadline`) and gets no answer. The instance of
  `relay_learned` has such repeats, and `Learned` says where they begin: a caller that
  repeats learns the outcome unless its own deadline and the margin pass first
  (`Outlived`).
- With `model_proxy.identity_mode` disabled and a token set, the bearer token is
  presented without `development.enabled` (`config.go:341`, `app.go:141-148`), which
  `config.go:104-107` ties it to. `SoundIdentity` therefore leaves the Model Proxy
  out, and would not see it shown a weaker identity; `ModelProxyIdentity` says, of
  every accepted configuration, what it is shown.
- An `http` URL under `mtls` presents no certificate (`config.go:326` against 107-108).
- An upload repeated, or run beside an identical one, while a finalization of an
  earlier PUT is under way may be refused though its transfer is finalized
  with its bytes (`scope.go:414-420`): each PUT has a version of its own and Control
  finalizes the first it hears of. Asked once more, the upload is answered
  finalized. The comment (`scope.go:372-374`) has a repeat reenter the same transfer;
  `RefusedForGood` names this as the one refusal that a repeat undoes.
- `knowledge.server_name` may be empty under `mtls` (the process then fails at start)
  and `knowledge.timeout` is checked against no range.

## 6. Not modelled

Peer tokens (`internal/peer`) are cryptography: `Access` takes a token to be its
role's or not. The peer identity policy (`spiffe.go`, `authz.go`) is pure functions over
certificates and a table, and nothing in this process calls them. The test PKI
(`identitytest`) is a fixture. Logging, the texts of reasons and the JSON of answers
are left out everywhere. `Control`, the store, the Model Proxy, MCP and Knowledge are
external and modelled from how the sidecar and its tests use them.

## 7. Plan

Done, in this order: authority and access server; their proofs; transfer; reloader;
rotation; their proofs; relays; configuration, envelope, lifecycle and sockets; gRPC
client connections; the proofs of relays,
transfer, reloader, channel and lifecycle, and the refinements of `WriteOnce`,
`AuthorityGate` and `CallOnce`.

Left: larger
instances of `relay` (a third instance, a second fault), whose state spaces grow
tenfold and more; the peer policy as operators against a reference definition, should a
server of this process come to use it.
