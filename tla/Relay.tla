-------------------------------- MODULE Relay --------------------------------
(***************************************************************************)
(* The three relays (internal/scope relay.go, mcp.go, knowledge.go and their *)
(* handlers in internal/server): a caller's request is bound to the scope    *)
(* Control confirms for this instance and forwarded under the instance's     *)
(* identity to the Model Proxy, MCP or Knowledge.  The first two act on a    *)
(* call once, found again by its identity; a search is a read.              *)
(*                                                                          *)
(* Several instances of one attempt may run at once, of which Control holds  *)
(* one current.  Callers repeat what they were not told the end of.  Four    *)
(* timers run against each other: the connection's read and write timeouts,  *)
(* the relay's own timeout, and the deadline of the call.  The upstreams are *)
(* external, as the sidecar's comments and tests use them.  The authority    *)
(* decision is the module Authority's; here it is that the instance is       *)
(* current and the attempt's deadline not reached.                          *)
(***************************************************************************)
EXTENDS Naturals

CONSTANTS
  Conns,         \* connections that can be served at the same time
  Home,          \* the instance whose sidecar serves each connection
  Attempts,      \* what callers send, and whether the operation names an actor
  NoRequest,     \* an idle connection, nothing forwarded
  Configured,    \* the relays that have an upstream
  NoDeadline,    \* the caller asks for no deadline of its own
  BadDeadline,   \* the caller's deadline does not parse
  NoCall,        \* the upstream knows no call under an identity
  AttemptDeadline, Millisecond,             \* the scope's deadline, the unit it is cut to
  ReadTimeout, WriteTimeout,                \* of each connection
  RelayTimeout, CallTimeout, Margin,        \* of the relays; Forward's 30 seconds
  MaxTime,       \* the last instant of the modelled clock
  MaxFaults      \* failures of Control and of the upstreams in one behaviour

Kinds == {"model", "mcp", "knowledge"}
Times == 0..MaxTime
Instances == {Home[c] : c \in Conns}

\* What the strict decoders refuse.
Malformed == {"unknown field", "trailing data", "incomplete"}

\* `fit' is whether the body is within the size limit and decodes.
Request ==
  [kind : Kinds, id : STRING, content : STRING,
   deadline : Nat \cup {NoDeadline, BadDeadline},
   fit : {"ok", "large"} \cup Malformed]

Requests == UNION {a.requests : a \in Attempts}

ASSUME RequestAssumption ==
  /\ Attempts \subseteq [requests : SUBSET Request, actor : BOOLEAN]
  /\ NoRequest \notin Request
  /\ NoDeadline \notin Nat /\ BadDeadline \notin Nat
  /\ Home = [c \in Conns |-> Home[c]]
ASSUME TimeAssumption ==
  /\ {AttemptDeadline, ReadTimeout, WriteTimeout, RelayTimeout, CallTimeout,
      Margin, MaxTime, MaxFaults} \subseteq Nat
  /\ Millisecond \in Nat \ {0}

VARIABLES
  pc,       \* how far each connection's request is
  req,      \* the request being served on it
  since,    \* when the request was read
  writeBy,  \* the connection's write deadline
  sent,     \* the bound request
  began,    \* when it was forwarded
  ans,      \* the answer the caller got
  calls,    \* the upstreams' call under each identity
  late,     \* forwarded requests that outlived the connection
  attempt,  \* the one attempt all instances are of
  current,  \* the instance Control holds current
  now, faults,
  runs,     \* history: how often an upstream acted for each command
  said      \* history: what was forwarded for each command

connVars == <<pc, req, since, writeBy, sent, began, ans>>
upstreamVars == <<calls, late, runs, said>>
vars == <<connVars, upstreamVars, attempt, current, now, faults>>

-----------------------------------------------------------------------------
(***************************************************************************)
(* Binding a request to the confirmed scope.                                *)
(***************************************************************************)
\* Mutant: the caller's deadline stands, however late.
EarlierOfCaller(d) == IF d = NoDeadline THEN AttemptDeadline ELSE d

Earlier(d) == IF d \in Nat /\ d < AttemptDeadline THEN d ELSE AttemptDeadline

\* Mutant: the deadline is cut to the end of its millisecond.
RoundUp(t) == t - (t % Millisecond) + Millisecond

Truncate(t) == t - (t % Millisecond)

\* Mutants: the identity of a tool call carries its content; no identity
\* carries the instance.
IdentityOfContent(i, r) ==
  IF r.kind = "mcp" THEN <<r.kind, i, r.id, r.content>> ELSE <<r.kind, r.id>>
IdentityOfCaller(i, r) == <<r.kind, r.id>>

\* A model call goes by the caller's own id, a tool call by one namespaced by
\* the instance.
Identity(i, r) ==
  IF r.kind = "mcp" THEN <<r.kind, i, r.id>> ELSE <<r.kind, r.id>>

\* The digest covers the binding and the caller's exact bytes.
Digest(i, r) == <<i, r>>

\* `from' is history: whose request it is.
Bind(i, r) ==
  [kind |-> r.kind, key |-> Identity(i, r), digest |-> Digest(i, r),
   deadline |-> Truncate(Earlier(r.deadline)), from |-> <<i, r>>]

BindFails(r) ==
  r.deadline = BadDeadline \/ (r.kind # "model" /\ ~attempt.actor)

\* When the relay gives up a call forwarded at t: Forward after its timeout or
\* the deadline with a margin, whichever is later; Call and Search after theirs.
Bound(b, t) ==
  IF b.kind = "model"
  THEN IF b.deadline + Margin > t + RelayTimeout
       THEN b.deadline + Margin ELSE t + RelayTimeout
  ELSE t + CallTimeout

\* The command as its caller knows it: its request's kind and id.
Command(p) == <<p[1], p[2].kind, p[2].id>>

\* Mutant: a deadline that was not parsed reads as the zero time.
Unparsed(b) == Margin

\* The write deadline Forward gives the connection once the stream opens.
StreamDeadline(b) == b.deadline + Margin

Pairs == Instances \X Requests
Keys == {Identity(p[1], p[2]) : p \in Pairs}
Commands == {Command(p) : p \in Pairs}
Digests == {Digest(p[1], p[2]) : p \in Pairs}
Bindings ==
  [kind : Kinds, key : Keys, digest : Digests, deadline : 0..AttemptDeadline,
   from : Pairs]
Calls == [digest : Digests, from : Pairs, done : BOOLEAN]

ASSUME CallAssumption == NoCall \notin Calls /\ NoRequest \notin Pairs

-----------------------------------------------------------------------------
(***************************************************************************)
(* Answers.  LOST is what a caller has when the answer could not be written; *)
(* a model answer that begins and stops short is `partial'.                  *)
(***************************************************************************)
Repeatable == {"UNAVAILABLE", "TIMEOUT", "LOST"}
Codes ==
  {"NONE", "OK", "TOO_LARGE", "INVALID_ARGUMENT", "NO_AUTHORITY", "CONFLICT", "REFUSED"}
    \cup Repeatable
Answer == [code : Codes, state : {"none", "running", "done", "partial"}]
NoAnswer == [code |-> "NONE", state |-> "none"]

Finished(b) == calls[b.key] # NoCall /\ calls[b.key].done

Reply(c, code, state) ==
  /\ pc' = [pc EXCEPT ![c] = "done"]
  /\ ans' = [ans EXCEPT ![c] =
       IF now < writeBy[c] THEN [code |-> code, state |-> state]
       ELSE [code |-> "LOST", state |-> "none"]]
  /\ since' = [since EXCEPT ![c] = 0]
  /\ writeBy' = [writeBy EXCEPT ![c] = 0]
  /\ began' = [began EXCEPT ![c] = 0]
  /\ UNCHANGED <<req, sent>>

Fault == faults < MaxFaults /\ faults' = faults + 1

-----------------------------------------------------------------------------
(***************************************************************************)
(* The caller: a request, repeated byte by byte while its end is not known.  *)
(***************************************************************************)
Read(c, r) ==
  /\ pc' = [pc EXCEPT ![c] = "screen"]
  /\ req' = [req EXCEPT ![c] = r]
  /\ since' = [since EXCEPT ![c] = now]
  /\ writeBy' = [writeBy EXCEPT ![c] = now + WriteTimeout]
  /\ sent' = [sent EXCEPT ![c] = NoRequest]
  /\ ans' = [ans EXCEPT ![c] = NoAnswer]
  /\ UNCHANGED <<began, upstreamVars, current, now, faults>>

Unsettled(c) == ans[c].code \in Repeatable \/ ans[c].state \in {"running", "partial"}

Arrive(c) == pc[c] = "free" /\ \E r \in attempt.requests : Read(c, r)

Repeat(c) == pc[c] = "done" /\ Unsettled(c) /\ Read(c, req[c])

Close(c) ==
  /\ pc[c] = "done" /\ ~Unsettled(c)
  /\ pc' = [pc EXCEPT ![c] = "free"]
  /\ req' = [req EXCEPT ![c] = NoRequest]
  /\ sent' = [sent EXCEPT ![c] = NoRequest]
  /\ ans' = [ans EXCEPT ![c] = NoAnswer]
  /\ UNCHANGED <<since, writeBy, began, upstreamVars, current, now, faults>>

-----------------------------------------------------------------------------
(***************************************************************************)
(* The handler up to the forwarded request: size, upstream, syntax, scope,   *)
(* binding, in that order.                                                  *)
(***************************************************************************)
Screen(c) ==
  /\ pc[c] = "screen"
  /\ LET r == req[c] IN
       \/ r.fit = "large" /\ Reply(c, "TOO_LARGE", "none")
       \/ /\ r.fit # "large" /\ r.kind \notin Configured
          /\ Reply(c, "UNAVAILABLE", "none")
       \/ /\ r.fit \in Malformed /\ r.kind \in Configured
          /\ Reply(c, "INVALID_ARGUMENT", "none")
       \/ /\ r.fit = "ok" /\ r.kind \in Configured
          /\ pc' = [pc EXCEPT ![c] = "confirm"]
          /\ UNCHANGED <<req, since, writeBy, sent, began, ans>>
  /\ UNCHANGED <<upstreamVars, current, now, faults>>

Confirm(c) ==
  /\ pc[c] = "confirm"
  /\ LET i == Home[c]
         r == req[c]
         b == Bind(i, r)
     IN \/ /\ i # current \/ now >= AttemptDeadline
           /\ Reply(c, "NO_AUTHORITY", "none")
           /\ UNCHANGED said
        \/ /\ i = current /\ now < AttemptDeadline /\ BindFails(r)
           /\ Reply(c, "INVALID_ARGUMENT", "none")
           /\ UNCHANGED said
        \/ /\ i = current /\ now < AttemptDeadline /\ ~BindFails(r)
           /\ pc' = [pc EXCEPT ![c] = "upstream"]
           /\ sent' = [sent EXCEPT ![c] = b]
           /\ began' = [began EXCEPT ![c] = now]
           /\ said' = said \cup {b.from}
           /\ UNCHANGED <<req, since, writeBy, ans>>
  /\ UNCHANGED <<calls, late, runs, current, now, faults>>

ConfirmFails(c) ==
  /\ pc[c] = "confirm"
  /\ Fault
  /\ Reply(c, "UNAVAILABLE", "none")
  /\ UNCHANGED <<upstreamVars, current, now>>

-----------------------------------------------------------------------------
(***************************************************************************)
(* The upstream.  The same identity under the same digest reenters its call, *)
(* under another it is refused; no call begins at or after its deadline.     *)
(***************************************************************************)
Takes(b) ==
  \/ /\ calls[b.key] = NoCall /\ now < b.deadline
     /\ calls' = [calls EXCEPT ![b.key] = 
                    [digest |-> b.digest, from |-> b.from, done |-> FALSE]]
     /\ runs' = [runs EXCEPT ![Command(b.from)] = @ + 1]
  \/ /\ calls[b.key] # NoCall /\ calls[b.key].digest = b.digest
     /\ UNCHANGED <<calls, runs>>

Conflicts(b) == calls[b.key] # NoCall /\ calls[b.key].digest # b.digest

\* Past the deadline, or by the upstream's own policy on routes, grants, budgets.
Declined(b) == calls[b.key] = NoCall

\* The upstream may answer from its handling on; a call ends in its own time.
Completes(k) ==
  /\ calls[k] # NoCall /\ ~calls[k].done
  /\ calls' = [calls EXCEPT ![k].done = TRUE]
  /\ UNCHANGED <<connVars, late, runs, said, current, now, faults>>

\* A tool call is answered with its state.
CallMCP(c) ==
  /\ pc[c] = "upstream" /\ sent[c].kind = "mcp"
  /\ \/ /\ Takes(sent[c])
        /\ Reply(c, "OK", IF Finished(sent[c]) THEN "done" ELSE "running")
     \/ /\ Conflicts(sent[c])
        /\ Reply(c, "CONFLICT", "none")
        /\ UNCHANGED <<calls, runs>>
     \/ /\ Declined(sent[c])
        /\ Reply(c, "REFUSED", "none")
        /\ UNCHANGED <<calls, runs>>
  /\ UNCHANGED <<late, said, current, now, faults>>

\* A search is answered, or refused under Knowledge's own code.
Search(c) ==
  /\ pc[c] = "upstream" /\ sent[c].kind = "knowledge"
  /\ \/ now < sent[c].deadline /\ Reply(c, "OK", "done")
     \/ Reply(c, "REFUSED", "none")
  /\ UNCHANGED <<upstreamVars, current, now, faults>>

\* A refusal of the Proxy is copied; an accepted call opens its stream, and
\* from then on the deadline of the call is the connection's write deadline.
Forward(c) ==
  /\ pc[c] = "upstream" /\ sent[c].kind = "model"
  /\ \/ /\ Takes(sent[c])
        /\ pc' = [pc EXCEPT ![c] = "stream"]
        /\ writeBy' = [writeBy EXCEPT ![c] = StreamDeadline(sent[c])]
        /\ UNCHANGED <<req, since, sent, began, ans>>
     \/ /\ Conflicts(sent[c])
        /\ Reply(c, "CONFLICT", "none")
        /\ UNCHANGED <<calls, runs>>
     \/ /\ Declined(sent[c])
        /\ Reply(c, "REFUSED", "none")
        /\ UNCHANGED <<calls, runs>>
  /\ UNCHANGED <<late, said, current, now, faults>>

\* Mutant: what the Proxy has sent is taken for the whole answer.
StreamEndsEarly(c) ==
  /\ pc[c] = "stream" /\ now < writeBy[c]
  /\ Reply(c, "OK", "done")
  /\ UNCHANGED <<upstreamVars, current, now, faults>>

StreamEnds(c) ==
  /\ pc[c] = "stream" /\ Finished(sent[c]) /\ now < writeBy[c]
  /\ Reply(c, "OK", "done")
  /\ UNCHANGED <<upstreamVars, current, now, faults>>

-----------------------------------------------------------------------------
(***************************************************************************)
(* Calls that end without their upstream's answer.  What was forwarded never *)
(* arrived, was acted on, or still arrives later.                           *)
(***************************************************************************)
Abandoned(b) ==
  \/ UNCHANGED <<calls, late, runs>>
  \/ b.kind # "knowledge" /\ Takes(b) /\ UNCHANGED late
  \/ b.kind # "knowledge" /\ late' = late \cup {b} /\ UNCHANGED <<calls, runs>>

UpstreamFails(c) ==
  /\ pc[c] = "upstream"
  /\ Fault
  /\ Abandoned(sent[c])
  /\ Reply(c, "UNAVAILABLE", "none")
  /\ UNCHANGED <<said, current, now>>

\* Which timer is up: the connection's read timeout, which ends the request's
\* context and everything done under it, the relay's bound, or the write
\* deadline of a stream.
ContextEnded(c) == now >= since[c] + ReadTimeout
OwnTimerUp(c) ==
  \/ now >= Bound(sent[c], began[c])
  \/ pc[c] = "stream" /\ now >= writeBy[c]

Cut(c, code) ==
  \/ /\ pc[c] = "stream"
     /\ Reply(c, "OK", "partial")
     /\ UNCHANGED <<calls, late, runs>>
  \/ /\ pc[c] = "upstream"
     /\ Abandoned(sent[c])
     /\ Reply(c, code, "none")

TimesOut(c) ==
  /\ pc[c] \in {"upstream", "stream"}
  /\ \/ ContextEnded(c) /\ Cut(c, "UNAVAILABLE")
     \/ /\ OwnTimerUp(c)
        /\ Cut(c, IF sent[c].kind = "model" THEN "UNAVAILABLE" ELSE "TIMEOUT")
  /\ UNCHANGED <<said, current, now, faults>>

\* The Proxy's stream breaks off: the answer ends like a whole one.
StreamBreaks(c) ==
  /\ pc[c] = "stream"
  /\ Fault
  /\ Reply(c, "OK", "partial")
  /\ UNCHANGED <<upstreamVars, current, now>>

LateCall ==
  /\ \E b \in late :
       /\ late' = late \ {b}
       /\ \/ Takes(b)
          \/ (Conflicts(b) \/ Declined(b)) /\ UNCHANGED <<calls, runs>>
  /\ UNCHANGED <<connVars, said, current, now, faults>>

\* Another instance becomes the current one.
Replace ==
  /\ \E i \in Instances \ {current} : current' = i
  /\ Fault
  /\ UNCHANGED <<connVars, upstreamVars, now>>

\* The relay's own timers fire on time.
Tick ==
  /\ now < MaxTime
  /\ \A c \in Conns :
       pc[c] \in {"upstream", "stream"} => now < Bound(sent[c], began[c])
  /\ now' = now + 1
  /\ UNCHANGED <<connVars, upstreamVars, current, faults>>

Init ==
  /\ pc = [c \in Conns |-> "free"]
  /\ req = [c \in Conns |-> NoRequest]
  /\ since = [c \in Conns |-> 0]
  /\ writeBy = [c \in Conns |-> 0]
  /\ sent = [c \in Conns |-> NoRequest]
  /\ began = [c \in Conns |-> 0]
  /\ ans = [c \in Conns |-> NoAnswer]
  /\ calls = [k \in Keys |-> NoCall]
  /\ late = {}
  /\ attempt \in Attempts
  /\ current \in Instances
  /\ now = 0
  /\ faults = 0
  /\ runs = [k \in Commands |-> 0]
  /\ said = {}

Handle(c) ==
  \/ Screen(c) \/ Confirm(c) \/ ConfirmFails(c)
  \/ CallMCP(c) \/ Search(c) \/ Forward(c) \/ StreamEnds(c)
  \/ UpstreamFails(c) \/ TimesOut(c) \/ StreamBreaks(c)

Step ==
  \/ \E c \in Conns : Arrive(c) \/ Repeat(c) \/ Close(c) \/ Handle(c)
  \/ \E k \in Keys : Completes(k)
  \/ LateCall \/ Replace \/ Tick

Next == Step /\ UNCHANGED attempt

Spec == Init /\ [][Next]_vars

\* Handlers proceed, callers repeat what they were not told, calls end.
FairSpec ==
  /\ Spec
  /\ \A c \in Conns :
       /\ WF_vars(Handle(c) /\ UNCHANGED attempt)
       /\ WF_vars(Repeat(c) /\ UNCHANGED attempt)
  /\ \A k \in Keys : WF_vars(Completes(k) /\ UNCHANGED attempt)

-----------------------------------------------------------------------------
ConnTypeOK ==
  /\ pc \in [Conns -> {"free", "screen", "confirm", "upstream", "stream", "done"}]
  /\ req \in [Conns -> Requests \cup {NoRequest}]
  /\ since \in [Conns -> Times] /\ began \in [Conns -> Times]
  /\ writeBy \in [Conns -> Nat]
  /\ sent \in [Conns -> Bindings \cup {NoRequest}]
  /\ ans \in [Conns -> Answer]
  /\ \A c \in Conns :
       /\ pc[c] # "free" => req[c] \in Requests
       /\ pc[c] \in {"upstream", "stream"} => sent[c] \in Bindings

UpstreamTypeOK ==
  /\ calls \in [Keys -> Calls \cup {NoCall}]
  /\ late \subseteq Bindings
  /\ runs \in [Commands -> Nat]
  /\ said \subseteq Pairs

\* Every variable keeps its type; what is open has a request, and what is
\* under way a bound one.
TypeOK ==
  /\ ConnTypeOK /\ UpstreamTypeOK
  /\ attempt \in Attempts /\ current \in Instances
  /\ now \in Times /\ faults \in 0..MaxFaults

Mine(c) == <<Home[c], req[c]>>

(* The state or the outcome a caller is given is that of a call begun for its *)
(* own instance and its own bytes, though ids collide, calls arrive late and  *)
(* instances replace each other (Bind, BindCall).  CallOnce promises it too.   *)
AnsweredOwnCall ==
  \A c \in Conns :
    pc[c] = "done" /\ ans[c].state # "none" /\ sent[c].kind # "knowledge" =>
      calls[sent[c].key] # NoCall /\ calls[sent[c].key].from = Mine(c)

(* However often a command is repeated, changed or delivered late, it is acted *)
(* on once (mcp.go:53-54, "never sends again").                               *)
ActedOnce == \A k \in Commands : runs[k] <= 1

(* A tool call conflicts only with another request of the same instance under *)
(* the same command: other instances' commands never meet it (BindCall).      *)
ConflictMeansReuse ==
  \A c \in Conns :
    ans[c].code = "CONFLICT" /\ req[c].kind = "mcp" =>
      \E p \in said \ {Mine(c)} : Command(p) = Command(Mine(c))

(* Every call begins before the attempt's deadline and before the one its own *)
(* caller asked for, cut to the millisecond or not, also when it arrives after *)
(* its caller gave up (Bind).                                                  *)
BegunInTime ==
  [][\A k \in Keys : calls[k] = NoCall /\ calls'[k] # NoCall =>
       /\ now < AttemptDeadline
       /\ LET asked == calls'[k].from[2].deadline
          IN asked \in Nat => now < asked]_vars

Outcome(c) ==
  /\ pc[c] = "done"
  /\ \/ ans[c].state = "done"
     \/ ans[c].code \in {"TOO_LARGE", "INVALID_ARGUMENT", "NO_AUTHORITY", "CONFLICT", "REFUSED"}

\* A model call with a deadline of its caller's that is past by the margin.
Outlived(c) ==
  /\ pc[c] # "free" /\ req[c].kind = "model" /\ req[c].deadline \in Nat
  /\ now >= Bind(Home[c], req[c]).deadline + Margin

(* A caller that repeats its request gets the outcome of its call or a refusal,*)
(* though connections, contexts and upstreams fail on it, unless its own       *)
(* deadline and 30 seconds pass first: until then no timer cuts every repeat   *)
(* (HTTPServer's timeouts against Forward's and Call's).                       *)
Learned ==
  \A c \in Conns :
    (pc[c] = "screen" /\ req[c].kind \in Configured) ~> (Outcome(c) \/ Outlived(c))

-----------------------------------------------------------------------------
(***************************************************************************)
(* The relays as CallOnce.  A search has no call: it is a read.              *)
(***************************************************************************)
CallsNobody(c) == req[c] = NoRequest \/ req[c].kind = "knowledge"

Begun == [k \in Keys |-> IF calls[k] = NoCall THEN NoRequest ELSE calls[k].from]
Ended == {k \in Keys : calls[k] # NoCall /\ calls[k].done}
Asked == [c \in Conns |-> IF CallsNobody(c) THEN NoRequest ELSE Mine(c)]
Told ==
  [c \in Conns |->
     IF CallsNobody(c) \/ ans[c].state = "none" THEN "nothing"
     ELSE IF ans[c].state = "done" THEN "over" ELSE "begun"]

Promise == INSTANCE CallOnce
  WITH Identities <- Keys, Callers <- Conns, Requests <- Pairs,
       Nothing <- NoRequest, begun <- Begun, ended <- Ended, asked <- Asked,
       told <- Told

(* A tool or model call is begun once for a request, and each caller is told  *)
(* of its own, as it stands, until it was told the end (the relays' reentry). *)
ImplementsCallOnce == Promise!Spec
==============================================================================
