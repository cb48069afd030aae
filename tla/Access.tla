-------------------------------- MODULE Access --------------------------------
(***************************************************************************)
(* The access server of a Job Pod (internal/server with the decision path   *)
(* of internal/app and internal/scope).  Each connection carries one        *)
(* request: the guard checks the peer, the route set dispatches, Control is *)
(* asked for the Pod's registration, the clock is read and the authority    *)
(* decided, and only then does the handler act: serve or stage an input,    *)
(* load one through Control, submit or read a result, report progress.      *)
(*                                                                          *)
(* Handlers run concurrently with each other, with Control changing the     *)
(* registration, with the clock, and with calls this process gave up on     *)
(* and Control still handles.  The process keeps its state in memory alone  *)
(* and the Pod restarts it when it dies.                                    *)
(***************************************************************************)
EXTENDS Authority

CONSTANTS
  Conns,         \* connections that can be served at the same time
  Requests,      \* the requests a peer may send
  Rows,          \* the registrations Control may hold for the Pod
  Unregistered,  \* Control has no row for the Pod
  NoRequest,     \* an idle connection
  Names,         \* input names
  Bytes,         \* contents of inputs and result manifests
  NoBytes,       \* nothing staged, no body, no accepted result
  DigestOf,      \* the digest of every content
  Declared,      \* the digest the envelope declares for each of its inputs
  Recorded,      \* Control's recorded digest for each name bound to a handle
  MaxTime        \* the last instant of the modelled clock

Roles == {"trusted", "candidate"}

\* The routes that act under the decision here; what an upload does once it is
\* confirmed is the module Transfer, the relays are the module Relay.
\* `knowledge' is any route below /v1/knowledge/ but the searches, `other' one
\* neither set has, and `fit' whether the body is within the route's limit and
\* decodes, or the name in the path is well formed.
TrustedRoutes ==
  {"scope", "read", "stage", "load", "transfer", "submit", "accepted", "prior",
   "progress", "knowledge"}
CandidateRoutes == {"read"}
Routes == TrustedRoutes \cup {"other"}

Request ==
  [socket : Roles, uid : Roles \cup {"other"}, nonce : BOOLEAN,
   token : Roles \cup {"other"}, route : Routes, name : Names, bytes : Bytes,
   fit : {"ok", "large", "malformed"}]

ASSUME RequestAssumption == Requests \subseteq Request /\ NoRequest \notin Request
ASSUME RowAssumption ==
  /\ Rows \subseteq Registration
  /\ Unregistered \notin Registration
  /\ \A r \in Rows : [r EXCEPT !.state = "RESULT_ACCEPTED"] \in Rows
ASSUME InputAssumption ==
  /\ NoBytes \notin Bytes
  /\ DigestOf = [b \in Bytes |-> DigestOf[b]]
  /\ DOMAIN Declared \subseteq Names
  /\ DOMAIN Recorded \subseteq DOMAIN Declared
ASSUME ClockAssumption == MaxTime \in Nat

VARIABLES
  pc,      \* how far each connection's request is
  req,     \* the request being served on each connection
  reg,     \* the registration each handler read for its request
  proof,   \* whether the sidecar's proof is set on the response
  ans,     \* the answer written on each connection
  inputs,  \* Inputs.bytes: the staged content of each declared input
  row,     \* Control's registration of the Pod
  stage,   \* Control's accepted result of the attempt
  late,    \* results in AcceptResult calls that outlived their request
  now,     \* the clock
  told,    \* history: results the sidecar answered as accepted
  held,    \* history: authority held at some instant of the request
  known,   \* history: the last registration Control held
  lost     \* history: that registration lacked it at some instant of it

serverVars == <<pc, req, reg, proof, ans>>
controlVars == <<row, stage, late>>
vars == <<serverVars, inputs, controlVars, now, told, known, held, lost>>

-----------------------------------------------------------------------------
RetryableCodes == {"SCOPE_UNAVAILABLE", "DEPENDENCY_UNAVAILABLE"}
AuthorityCodes == {"NO_AUTHORITY", "STALE_EXECUTION", "DEADLINE_EXCEEDED"}
GuardCodes == {"PEER_UID_MISMATCH", "PEER_NONCE_INVALID", "PEER_TOKEN_MISMATCH"}

\* Refusals under a code Control chose: CONTROL_CODE is the 403 of the
\* registration read.  ACTION_REFUSED is the 409, or under INVALID_ARGUMENT the
\* 400, of an action that was confirmed, whatever its code: STALE_EXECUTION or
\* NO_AUTHORITY there is what the action met later, not this decision.
Codes ==
  {"OK", "ROUTE_FORBIDDEN", "NOT_FOUND", "INPUT_REJECTED", "CONTROL_CODE",
   "TOO_LARGE", "INVALID_ARGUMENT", "ACTION_REFUSED", "NONE"}
    \cup RetryableCodes \cup AuthorityCodes \cup GuardCodes

Answer == [code : Codes, proof : BOOLEAN, body : Bytes \cup {NoBytes}]
NoAnswer == [code |-> "NONE", proof |-> FALSE, body |-> NoBytes]

Purpose(r) ==
  IF r.route \in {"submit", "accepted", "prior"} THEN "ForResult"
  ELSE "ForNewAuthorization"

\* Mutant: both sockets serve one route set.
RoutesOfBoth(socket) == TrustedRoutes

RoutesOf(socket) ==
  IF socket = "trusted" THEN TrustedRoutes ELSE CandidateRoutes

\* answerScopeError.
ScopeError(outcome) ==
  CASE outcome = "ErrNoAuthority" -> "NO_AUTHORITY"
    [] outcome = "ErrDeadline" -> "DEADLINE_EXCEEDED"
    [] outcome = "ErrStale" -> "STALE_EXECUTION"
    [] OTHER -> "DEPENDENCY_UNAVAILABLE"

\* The answer is written, with the proof if the guard set it, and the
\* handler returns.
Reply(c, code, body) ==
  /\ pc' = [pc EXCEPT ![c] = "done"]
  /\ ans' = [ans EXCEPT ![c] = [code |-> code, proof |-> proof[c], body |-> body]]
  /\ reg' = [reg EXCEPT ![c] = Unregistered]
  /\ UNCHANGED <<req, proof>>

Proceed(c, to) ==
  /\ pc' = [pc EXCEPT ![c] = to]
  /\ UNCHANGED <<req, reg, proof, ans>>

\* The history of every open request after a step: whether authority for its
\* purpose has held, and whether the last registration has lacked it, since
\* the request arrived.
Open(c) == pc'[c] \notin {"free", "done"}

Watch ==
  /\ known' = IF row' = Unregistered THEN known ELSE row'
  /\ held' = [c \in Conns |-> pc'[c] # "free" /\
       (held[c] \/ /\ Open(c) /\ row' # Unregistered
                   /\ Authorized(row', now', Purpose(req'[c])))]
  /\ lost' = [c \in Conns |-> pc'[c] # "free" /\
       (lost[c] \/ /\ Open(c) /\ known' # Unregistered
                   /\ ~Authorized(known', now', Purpose(req'[c])))]

\* Nothing but the connections changes.
OnlyServer == UNCHANGED <<inputs, controlVars, now, told>> /\ Watch

-----------------------------------------------------------------------------
(***************************************************************************)
(* A connection: accepted, guarded, dispatched.                             *)
(***************************************************************************)
Accept(c) ==
  /\ pc[c] = "free"
  /\ \E r \in Requests : req' = [req EXCEPT ![c] = r]
  /\ pc' = [pc EXCEPT ![c] = "guard"]
  /\ UNCHANGED <<reg, proof, ans, inputs, controlVars, now, told>>
  /\ Watch

\* guard: the peer UID, the nonce and the token, in that order; a refusal
\* carries no proof.
GuardRefuses(c) ==
  /\ pc[c] = "guard"
  /\ \/ req[c].uid # req[c].socket /\ Reply(c, "PEER_UID_MISMATCH", NoBytes)
     \/ /\ req[c].uid = req[c].socket /\ ~req[c].nonce
        /\ Reply(c, "PEER_NONCE_INVALID", NoBytes)
     \/ /\ req[c].uid = req[c].socket /\ req[c].nonce
        /\ req[c].token # req[c].socket
        /\ Reply(c, "PEER_TOKEN_MISMATCH", NoBytes)
  /\ OnlyServer

\* Mutant: the token is not compared.
GuardIgnoresToken(c) ==
  /\ pc[c] = "guard"
  /\ req[c].uid = req[c].socket /\ req[c].nonce
  /\ proof' = [proof EXCEPT ![c] = TRUE]
  /\ pc' = [pc EXCEPT ![c] = "route"]
  /\ UNCHANGED <<req, reg, ans, inputs, controlVars, now, told>>
  /\ Watch

\* The token is the socket's own and the nonce valid, so the proof can be
\* computed: the 500 of the code is not reached.
GuardPasses(c) ==
  /\ pc[c] = "guard"
  /\ req[c].uid = req[c].socket /\ req[c].nonce /\ req[c].token = req[c].socket
  /\ proof' = [proof EXCEPT ![c] = TRUE]
  /\ pc' = [pc EXCEPT ![c] = "route"]
  /\ UNCHANGED <<req, reg, ans, inputs, controlVars, now, told>>
  /\ Watch

\* What a handler answers before it asks Control: a load of a name bound to
\* no handle, a read of a name or an attempt id that is none, a body beyond its
\* limit or malformed.
Screened(r) ==
  CASE r.route = "load" /\ r.name \notin DOMAIN Recorded -> "NOT_FOUND"
    [] r.route \in {"read", "prior"} /\ r.fit = "malformed" -> "NOT_FOUND"
    [] r.route \in {"stage", "transfer", "submit", "progress"} /\ r.fit = "large" ->
         "TOO_LARGE"
    [] r.route \in {"submit", "progress"} /\ r.fit = "malformed" -> "INVALID_ARGUMENT"
    [] OTHER -> "OK"

\* Mutant: a request that is refused before Control is asked gets no answer.
DispatchSilently(c) ==
  /\ pc[c] = "route"
  /\ \/ /\ req[c].route \notin RoutesOf(req[c].socket)
        /\ Reply(c, "ROUTE_FORBIDDEN", NoBytes)
     \/ /\ req[c].route \in RoutesOf(req[c].socket)
        /\ Screened(req[c]) = "OK"
        /\ Proceed(c, "lookup")
  /\ OnlyServer

\* The route set of the socket: an unlisted route is forbidden, and what the
\* handler can refuse by itself is answered before any read.
Dispatch(c) ==
  /\ pc[c] = "route"
  /\ \/ /\ req[c].route \notin RoutesOf(req[c].socket)
        /\ Reply(c, "ROUTE_FORBIDDEN", NoBytes)
     \/ /\ req[c].route \in RoutesOf(req[c].socket)
        /\ Screened(req[c]) # "OK"
        /\ Reply(c, Screened(req[c]), NoBytes)
     \/ /\ req[c].route \in RoutesOf(req[c].socket)
        /\ Screened(req[c]) = "OK"
        /\ Proceed(c, "lookup")
  /\ OnlyServer

-----------------------------------------------------------------------------
(***************************************************************************)
(* The authority of the request: Control is read, then the clock.           *)
(***************************************************************************)
\* Mutant: an answer without a row is taken for a registration.
LookupUnchecked(c) ==
  /\ pc[c] = "lookup"
  /\ reg' = [reg EXCEPT ![c] = row]
  /\ pc' = [pc EXCEPT ![c] = "decide"]
  /\ UNCHANGED <<req, proof, ans>>
  /\ OnlyServer

Lookup(c) ==
  /\ pc[c] = "lookup"
  /\ \/ row = Unregistered /\ Reply(c, "SCOPE_UNAVAILABLE", NoBytes)
     \/ /\ row # Unregistered /\ ~row.own
        /\ Reply(c, "DEPENDENCY_UNAVAILABLE", NoBytes)
     \/ /\ row # Unregistered /\ row.own
        /\ reg' = [reg EXCEPT ![c] = row]
        /\ pc' = [pc EXCEPT ![c] = "decide"]
        /\ UNCHANGED <<req, proof, ans>>
  /\ OnlyServer

\* Control cannot be asked or does not answer within the call's timeout, or
\* refuses the read.
LookupFails(c) ==
  /\ pc[c] = "lookup"
  /\ \E code \in {"DEPENDENCY_UNAVAILABLE", "CONTROL_CODE"} :
       Reply(c, code, NoBytes)
  /\ OnlyServer

Decide(c) ==
  /\ pc[c] = "decide"
  /\ LET outcome == Confirm(reg[c], now, Purpose(req[c])) IN
       IF outcome = "ok" THEN Proceed(c, "act")
       ELSE Reply(c, ScopeError(outcome), NoBytes)
  /\ OnlyServer

-----------------------------------------------------------------------------
(***************************************************************************)
(* The actions of a confirmed request.                                      *)
(***************************************************************************)
Acting(c, route) == pc[c] = "act" /\ req[c].route = route

ServeScope(c) ==
  /\ Acting(c, "scope")
  /\ Reply(c, "OK", NoBytes)
  /\ OnlyServer

ReadInput(c) ==
  /\ Acting(c, "read")
  /\ LET b == inputs[req[c].name] IN
       IF b = NoBytes THEN Reply(c, "NOT_FOUND", NoBytes)
       ELSE Reply(c, "OK", b)
  /\ OnlyServer

\* Mutant: any content of a declared input may be staged.
PermittedByName(name, b) == name \in DOMAIN Declared

\* Inputs.Stage: the name is declared and the content has the declared digest.
Permitted(name, b) == name \in DOMAIN Declared /\ DigestOf[b] = Declared[name]

\* Mutant: a rejected content takes the staged one with it.
StageOrClear(c, name, b) ==
  IF Permitted(name, b)
  THEN inputs' = [inputs EXCEPT ![name] = b] /\ Reply(c, "OK", NoBytes)
  ELSE inputs' = [inputs EXCEPT ![name] = NoBytes] /\ Reply(c, "INPUT_REJECTED", NoBytes)

StageOrReject(c, name, b) ==
  IF Permitted(name, b)
  THEN inputs' = [inputs EXCEPT ![name] = b] /\ Reply(c, "OK", NoBytes)
  ELSE inputs' = inputs /\ Reply(c, "INPUT_REJECTED", NoBytes)

StageInput(c) ==
  /\ Acting(c, "stage")
  /\ StageOrReject(c, req[c].name, req[c].bytes)
  /\ UNCHANGED <<controlVars, now, told>>
  /\ Watch

\* An action that changes nothing here failed: it was refused, by Control or
\* on what Control and the store answered, or Control could not be asked.
ActionFails(c) ==
  /\ \E code \in {"ACTION_REFUSED", "DEPENDENCY_UNAVAILABLE"} : Reply(c, code, NoBytes)
  /\ OnlyServer

\* Client.Load: ReadArtifact answers Control's record and a capability...
ReadArtifact(c) ==
  /\ Acting(c, "load")
  /\ Proceed(c, "download")
  /\ OnlyServer

\* ... and the store answers some bytes, verified against the record first
\* and then against the envelope.
Download(c) ==
  /\ pc[c] = "download"
  /\ \E b \in Bytes :
       IF DigestOf[b] # Recorded[req[c].name]
       THEN inputs' = inputs /\ Reply(c, "ACTION_REFUSED", NoBytes)
       ELSE StageOrReject(c, req[c].name, b)
  /\ UNCHANGED <<controlVars, now, told>>
  /\ Watch

LoadFails(c) == (Acting(c, "load") \/ pc[c] = "download") /\ ActionFails(c)

\* Progress: Control records the node boundary or refuses it; nothing here
\* depends on which.
Progress(c) ==
  /\ Acting(c, "progress")
  /\ Reply(c, "OK", NoBytes)
  /\ OnlyServer

\* PriorStage: the accepted stage of another attempt, or none.
PriorStage(c) ==
  /\ Acting(c, "prior")
  /\ \E code \in {"OK", "NOT_FOUND"} : Reply(c, code, NoBytes)
  /\ OnlyServer

\* Upload: the transfer Control holds finalized afterwards (module Transfer).
Upload(c) ==
  /\ Acting(c, "transfer")
  /\ Reply(c, "OK", NoBytes)
  /\ OnlyServer

\* The Knowledge routes that are not relayed.
Unavailable(c) ==
  /\ Acting(c, "knowledge")
  /\ Reply(c, "DEPENDENCY_UNAVAILABLE", NoBytes)
  /\ OnlyServer

\* AcceptedStage: Control's accepted result of this attempt.
AcceptedStage(c) ==
  /\ Acting(c, "accepted")
  /\ IF stage = NoBytes
     THEN Reply(c, "NOT_FOUND", NoBytes) /\ UNCHANGED told
     ELSE Reply(c, "OK", stage) /\ told' = told \cup {stage}
  /\ UNCHANGED <<inputs, controlVars, now>>
  /\ Watch

CallFails(c) ==
  /\ \E route \in {"transfer", "progress", "prior", "accepted"} : Acting(c, route)
  /\ ActionFails(c)

-----------------------------------------------------------------------------
(***************************************************************************)
(* Control's acceptance (AcceptResult): the first result of an executing    *)
(* attempt is accepted and moves the attempt, the same result again reenters *)
(* the stage, everything else is refused.                                   *)
(***************************************************************************)
Accepts(b) ==
  \/ /\ stage = NoBytes
     /\ row # Unregistered
     /\ row.current /\ row.state \in Executing
     /\ stage' = b
     /\ row' = [row EXCEPT !.state = "RESULT_ACCEPTED"]
  \/ stage = b /\ UNCHANGED <<stage, row>>

SubmitAccepted(c) ==
  /\ Acting(c, "submit")
  /\ Accepts(req[c].bytes)
  /\ Reply(c, "OK", stage')
  /\ told' = told \cup {stage'}
  /\ UNCHANGED <<inputs, late, now>>
  /\ Watch

\* A refusal: another result was accepted, Control refuses the submission for
\* a reason of its own, or the verdict is none, which is never accepted.
SubmitRefused(c) ==
  /\ Acting(c, "submit")
  /\ stage # req[c].bytes
  /\ Reply(c, "ACTION_REFUSED", NoBytes)
  /\ OnlyServer

\* The answer of a handled call is lost.
SubmitAnswerLost(c) ==
  /\ Acting(c, "submit")
  /\ Accepts(req[c].bytes)
  /\ Reply(c, "DEPENDENCY_UNAVAILABLE", NoBytes)
  /\ UNCHANGED <<inputs, late, now, told>>
  /\ Watch

\* Mutant: a submission that timed out is taken for accepted.
SubmitTimeoutAccepted(c) ==
  /\ Acting(c, "submit")
  /\ Reply(c, "OK", req[c].bytes)
  /\ told' = told \cup {req[c].bytes}
  /\ late' = late \cup {req[c].bytes}
  /\ UNCHANGED <<inputs, row, stage, now>>
  /\ Watch

\* The call times out before Control handles it, and may still be handled.
SubmitTimesOut(c) ==
  /\ Acting(c, "submit")
  /\ Reply(c, "DEPENDENCY_UNAVAILABLE", NoBytes)
  /\ late' = late \cup {req[c].bytes}
  /\ UNCHANGED <<inputs, row, stage, now, told>>
  /\ Watch

LateSubmit ==
  /\ \E b \in late :
       /\ late' = late \ {b}
       /\ \/ Accepts(b)
          \/ stage # b /\ UNCHANGED <<stage, row>>
  /\ UNCHANGED <<serverVars, inputs, now, told>>
  /\ Watch

-----------------------------------------------------------------------------
Close(c) ==
  /\ pc[c] = "done"
  /\ pc' = [pc EXCEPT ![c] = "free"]
  /\ ans' = [ans EXCEPT ![c] = NoAnswer]
  /\ proof' = [proof EXCEPT ![c] = FALSE]
  /\ req' = [req EXCEPT ![c] = NoRequest]
  /\ UNCHANGED reg
  /\ OnlyServer

\* The process dies and is started again: every connection breaks, nothing is
\* staged any more (NewInputs), and submissions under way may still be handled.
Restart ==
  /\ \E c \in Conns : pc[c] # "free"
  /\ pc' = [c \in Conns |-> "free"]
  /\ req' = [c \in Conns |-> NoRequest]
  /\ reg' = [c \in Conns |-> Unregistered]
  /\ proof' = [c \in Conns |-> FALSE]
  /\ ans' = [c \in Conns |-> NoAnswer]
  /\ inputs' = [n \in Names |-> NoBytes]
  /\ \E sent \in SUBSET {c \in Conns : Acting(c, "submit")} :
       late' = late \cup {req[c].bytes : c \in sent}
  /\ UNCHANGED <<row, stage, now, told>>
  /\ Watch

\* Control and the launcher change the registration: the Pod is registered,
\* replaced, fenced, released, closed.  An attempt with an accepted result
\* executes no more, and RESULT_ACCEPTED means there is one.  The deadlines of
\* the envelope's attempt and of its operation do not move.
SameDeadline(r, s) ==
  /\ r.attempt /\ r.named /\ s.attempt /\ s.named => r.deadline = s.deadline
  /\ NoOperation \notin {r.operation, s.operation} =>
       r.operation.deadline = s.operation.deadline

ControlMoves ==
  /\ row' \in (Rows \cup {Unregistered}) \ {row}
  /\ known # Unregistered /\ row' # Unregistered => SameDeadline(known, row')
  /\ row' # Unregistered =>
       /\ row'.state \in Executing => stage = NoBytes
       /\ row'.state = "RESULT_ACCEPTED" => stage # NoBytes
  /\ UNCHANGED <<serverVars, inputs, stage, late, now, told>>
  /\ Watch

Tick ==
  /\ now < MaxTime
  /\ now' = now + 1
  /\ UNCHANGED <<serverVars, inputs, controlVars, told>>
  /\ Watch

Init ==
  /\ pc = [c \in Conns |-> "free"]
  /\ req = [c \in Conns |-> NoRequest]
  /\ reg = [c \in Conns |-> Unregistered]
  /\ proof = [c \in Conns |-> FALSE]
  /\ ans = [c \in Conns |-> NoAnswer]
  /\ inputs = [n \in Names |-> NoBytes]
  /\ row = Unregistered
  /\ stage = NoBytes
  /\ late = {}
  /\ now = 0
  /\ told = {}
  /\ known = Unregistered
  /\ held = [c \in Conns |-> FALSE]
  /\ lost = [c \in Conns |-> FALSE]

Serve(c) ==
  \/ GuardRefuses(c) \/ GuardPasses(c) \/ Dispatch(c)
  \/ Lookup(c) \/ LookupFails(c) \/ Decide(c)
  \/ ServeScope(c) \/ ReadInput(c) \/ StageInput(c)
  \/ ReadArtifact(c) \/ Download(c) \/ LoadFails(c)
  \/ Upload(c) \/ Unavailable(c)
  \/ Progress(c) \/ PriorStage(c) \/ AcceptedStage(c) \/ CallFails(c)
  \/ SubmitAccepted(c) \/ SubmitRefused(c)
  \/ SubmitAnswerLost(c) \/ SubmitTimesOut(c)

Next ==
  \/ \E c \in Conns : Accept(c) \/ Serve(c) \/ Close(c)
  \/ LateSubmit \/ Restart \/ ControlMoves \/ Tick

Spec == Init /\ [][Next]_vars

\* Handlers run on their own goroutines and every call they make is bounded
\* by a timeout, so a request that was accepted goes on.
FairSpec == Spec /\ \A c \in Conns : WF_vars(Serve(c))

-----------------------------------------------------------------------------
PcStates ==
  {"free", "guard", "route", "lookup", "decide", "act", "download", "done"}

ServerTypeOK ==
  /\ pc \in [Conns -> PcStates]
  /\ req \in [Conns -> Requests \cup {NoRequest}]
  /\ reg \in [Conns -> Rows \cup {Unregistered}]
  /\ proof \in [Conns -> BOOLEAN]
  /\ ans \in [Conns -> Answer]
  /\ \A c \in Conns : pc[c] # "free" => req[c] \in Requests
  /\ \A c \in Conns : pc[c] = "decide" => reg[c] \in Rows

WorldTypeOK ==
  /\ inputs \in [Names -> Bytes \cup {NoBytes}]
  /\ row \in Rows \cup {Unregistered}
  /\ stage \in Bytes \cup {NoBytes}
  /\ late \subseteq Bytes
  /\ now \in 0..MaxTime

HistoryTypeOK ==
  /\ told \subseteq Bytes
  /\ known \in Rows \cup {Unregistered}
  /\ held \in [Conns -> BOOLEAN]
  /\ lost \in [Conns -> BOOLEAN]

\* Every variable stays within the values the server and Control can hold: an
\* open connection has a request and one being decided has a registration.
TypeOK == ServerTypeOK /\ WorldTypeOK /\ HistoryTypeOK

\* The request passed the decision: its handler acts, or answered with what
\* only a confirmed request is answered.
Granted(c) ==
  \/ pc[c] \in {"act", "download"}
  \/ pc[c] = "done" /\ ans[c].code \in {"OK", "INPUT_REJECTED", "ACTION_REFUSED"}

\* No protected request is granted unless, at one and the same instant since
\* it arrived, Control held the Pod to be authorized for the purpose and no
\* deadline had passed: the registration is read for each request and the
\* clock after it (Client.Confirm, resolver.Confirm).
GrantedUnderAuthority == \A c \in Conns : Granted(c) => held[c]

\* A request is told that its authority ended (NO_AUTHORITY,
\* STALE_EXECUTION, DEADLINE_EXCEEDED) only if the Pod's registration did lack
\* it at some instant of the request; a Pod not registered yet and a Control
\* that cannot answer get the retryable codes (answerScopeError).  It speaks of
\* this decision, not of actions refused after it (answerActionError).
RefusalJustified ==
  \A c \in Conns : ans[c].code \in AuthorityCodes => lost[c]

\* Bytes are answered only for a declared input and with the digest the
\* envelope declares, whichever of staging and loading put them there and
\* whatever the store answered a load (Inputs.Stage, Client.Load).
ServedAsDeclared ==
  \A c \in Conns :
    (pc[c] = "done" /\ req[c].route = "read" /\ ans[c].code = "OK") =>
      /\ req[c].name \in DOMAIN Declared
      /\ ans[c].body \in Bytes
      /\ DigestOf[ans[c].body] = Declared[req[c].name]

\* Every result the sidecar ever answered as accepted is the one Control
\* accepted, so two callers, a retry after a lost answer and a read are told
\* the same (Client.Submit, Client.AcceptedStage).
ResultsAgree == \A b \in told : b = stage

\* The sidecar's proof stands on an answer exactly when the request came from
\* the socket's peer with a nonce and the socket's token (guard).
ProofNamesPeer ==
  \A c \in Conns :
    pc[c] = "done" =>
      (ans[c].proof <=> /\ req[c].uid = req[c].socket
                        /\ req[c].token = req[c].socket
                        /\ req[c].nonce)

\* The candidate changes nothing: a step that stages an input, leaves a result
\* to Control, is told of one, or has one accepted that no earlier step left to
\* Control, is one of a request of the trusted socket with the trusted peer and
\* token, whose authority held since it arrived (Candidate, Trusted, Confirm).
OnlyTrustedActs ==
  [][\/ \E n \in Names : inputs'[n] \notin {NoBytes, inputs[n]}
     \/ ~(late' \subseteq late)
     \/ told' # told
     \/ stage' \notin {stage} \cup late
     =>
       \E c \in Conns :
         /\ pc[c] \in {"act", "download"} /\ pc'[c] \in {"done", "free"}
         /\ req[c].socket = "trusted"
         /\ req[c].uid = "trusted" /\ req[c].token = "trusted"
         /\ held[c]]_vars

\* A staged input stays staged and keeps the declared digest as long as the
\* process lives: a later rejected or concurrent staging never disturbs it
\* (Inputs.Stage).
StagedStays ==
  [][(\E c \in Conns : pc'[c] # "free") =>
       \A n \in Names :
         inputs[n] # NoBytes =>
           inputs'[n] # NoBytes /\ DigestOf[inputs'[n]] = DigestOf[inputs[n]]]_vars

\* Every accepted request is answered unless the process dies: no handler
\* waits for ever on Control.
EveryRequestAnswered ==
  \A c \in Conns : pc[c] = "guard" ~> pc[c] \in {"done", "free"}

\* The server implements the promise of AuthorityGate: a connection is idle
\* until a request arrives, granted from the decision on, refused when it
\* answers that authority ended, and failed with any other answer.
Phase(c) ==
  CASE pc[c] = "free" -> "idle"
    [] Granted(c) -> "granted"
    [] pc[c] = "done" /\ ans[c].code \in AuthorityCodes -> "refused"
    [] pc[c] = "done" /\ ~Granted(c) /\ ans[c].code \notin AuthorityCodes -> "failed"
    [] OTHER -> "open"

Gate == INSTANCE AuthorityGate WITH
  NoPurpose <- NoRequest,
  phase <- [c \in Conns |-> Phase(c)],
  purpose <- [c \in Conns |->
                IF req[c] = NoRequest THEN NoRequest ELSE Purpose(req[c])]

\* Every behaviour of the server is one the promise allows.
ImplementsGate == Gate!Spec

\* A request that submits or reads a result passes the decision only while
\* the operation it was decided on is neither terminal nor reconciling (the
\* comment on ForResult, scope.go:128-130).
ResultFence ==
  \A c \in Conns :
    (pc[c] = "act" /\ Purpose(req[c]) = "ForResult") =>
      reg[c].operation.lifecycle \notin Terminal \cup {"RECONCILING"}
=============================================================================
