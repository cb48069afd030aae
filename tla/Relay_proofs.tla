----------------------------- MODULE Relay_proofs -----------------------------
(***************************************************************************)
(* Proofs about the relays, for any number of instances, connections,        *)
(* requests and failures and any timeouts.                                   *)
(***************************************************************************)
EXTENDS Relay, TLAPS

-----------------------------------------------------------------------------
(***************************************************************************)
(* Binding.                                                                  *)
(***************************************************************************)
\* Cutting an instant to its millisecond moves it back, and not past zero.
LEMMA TruncateBelow ==
  ASSUME NEW t \in Nat
  PROVE  Truncate(t) \in 0..t
<1>1. Millisecond \in Nat \ {0}
  BY TimeAssumption
<1>2. t % Millisecond \in 0..(Millisecond - 1)
  BY <1>1
<1>3. t = Millisecond * (t \div Millisecond) + (t % Millisecond)
  BY <1>1
<1>4. t \div Millisecond \in Nat
  BY <1>1
<1>5. Millisecond * (t \div Millisecond) \in Nat
  BY <1>1, <1>4
<1> QED
  BY <1>2, <1>3, <1>5 DEF Truncate

LEMMA EarlierType ==
  ASSUME NEW d \in Nat \cup {NoDeadline, BadDeadline}
  PROVE  /\ Earlier(d) \in 0..AttemptDeadline
         /\ d \in Nat => Earlier(d) <= d
BY TimeAssumption DEF Earlier

LEMMA RequestType ==
  ASSUME NEW r \in Requests
  PROVE  r \in Request
BY RequestAssumption DEF Requests

\* A bound request keeps whose it is; its deadline is neither past the
\* attempt's nor past the caller's.
LEMMA BindType ==
  ASSUME NEW i \in Instances, NEW r \in Requests
  PROVE  /\ Bind(i, r) \in Bindings
         /\ Bind(i, r).from = <<i, r>>
         /\ r.deadline \in Nat => Bind(i, r).deadline <= r.deadline
<1>1. r.kind \in Kinds /\ r.deadline \in Nat \cup {NoDeadline, BadDeadline}
  BY RequestType DEF Request
<1>2. <<i, r>> \in Pairs
  BY DEF Pairs
<1>3. Identity(i, r) \in Keys
  <2>1. <<i, r>>[1] = i /\ <<i, r>>[2] = r
    OBVIOUS
  <2> QED
    BY <1>2, <2>1 DEF Keys
<1>4. Digest(i, r) \in Digests
  <2>1. <<i, r>>[1] = i /\ <<i, r>>[2] = r
    OBVIOUS
  <2> QED
    BY <1>2, <2>1 DEF Digests
<1>5. /\ Earlier(r.deadline) \in 0..AttemptDeadline
      /\ r.deadline \in Nat => Earlier(r.deadline) <= r.deadline
  BY <1>1, EarlierType
<1>6. Truncate(Earlier(r.deadline)) \in 0..Earlier(r.deadline)
  BY <1>5, TruncateBelow, TimeAssumption
<1>7. /\ Truncate(Earlier(r.deadline)) \in 0..AttemptDeadline
      /\ r.deadline \in Nat => Truncate(Earlier(r.deadline)) <= r.deadline
  BY <1>1, <1>5, <1>6, TimeAssumption
<1> QED
  BY <1>1, <1>2, <1>3, <1>4, <1>7 DEF Bind, Bindings

\* The bound deadline is the earlier of the attempt's and the caller's, cut by
\* less than a millisecond: never later than either, and never a moment
\* earlier than the cut makes it (Bind).
THEOREM DeadlineIsTheEarlier ==
  ASSUME NEW i \in Instances, NEW r \in Requests, ~BindFails(r)
  PROVE  /\ Bind(i, r).deadline <= AttemptDeadline
         /\ r.deadline \in Nat => Bind(i, r).deadline <= r.deadline
         /\ \/ AttemptDeadline - Bind(i, r).deadline < Millisecond
            \/ /\ r.deadline \in Nat
               /\ r.deadline - Bind(i, r).deadline < Millisecond
<1> DEFINE t == Earlier(r.deadline)
<1>1. r.deadline \in Nat \cup {NoDeadline, BadDeadline}
  BY RequestType DEF Request
<1>2. /\ t \in Nat /\ t <= AttemptDeadline
      /\ r.deadline \in Nat => t <= r.deadline
      /\ t = AttemptDeadline \/ (r.deadline \in Nat /\ t = r.deadline)
  BY <1>1, TimeAssumption DEF Earlier
<1>3. Millisecond \in Nat \ {0} /\ AttemptDeadline \in Nat
  BY TimeAssumption
<1>4. t % Millisecond \in 0..(Millisecond - 1)
  BY <1>2, <1>3
<1> DEFINE d == Truncate(t)
<1>5. d \in 0..t
  BY <1>2, TruncateBelow
<1>6. t - d < Millisecond
  BY <1>2, <1>3, <1>4 DEF Truncate
<1>7. Bind(i, r).deadline = d
  BY DEF Bind
<1> HIDE DEF t, d
<1> QED
  BY <1>2, <1>3, <1>5, <1>6, <1>7

LEMMA HomeType == \A c \in Conns : Home[c] \in Instances
BY DEF Instances

LEMMA CommandType == \A p \in Pairs : Command(p) \in Commands
BY DEF Commands

-----------------------------------------------------------------------------
(***************************************************************************)
(* Type correctness.                                                        *)
(***************************************************************************)
WorldTypeOK ==
  /\ attempt \in Attempts /\ current \in Instances
  /\ now \in Times /\ faults \in 0..MaxFaults

LEMMA FaultType ==
  ASSUME faults \in 0..MaxFaults, Fault
  PROVE  faults' \in 0..MaxFaults
BY TimeAssumption DEF Fault

\* An answer ends the request.
LEMMA ReplyType ==
  ASSUME TypeOK, NEW c \in Conns, pc[c] # "free",
         NEW code \in Codes, NEW state \in {"none", "running", "done", "partial"},
         Reply(c, code, state)
  PROVE  ConnTypeOK'
<1>1. ans' \in [Conns -> Answer]
  BY DEF TypeOK, ConnTypeOK, Reply, Answer, Codes, Repeatable
<1>2. 0 \in Times /\ 0 \in Nat
  BY TimeAssumption DEF Times
<1> QED
  BY <1>1, <1>2 DEF TypeOK, ConnTypeOK, Reply

LEMMA ReadType ==
  ASSUME TypeOK, NEW c \in Conns, NEW r \in Requests, Read(c, r)
  PROVE  ConnTypeOK'
<1>1. now + WriteTimeout \in Nat
  BY TimeAssumption DEF TypeOK, Times
<1>2. NoAnswer \in Answer
  BY DEF NoAnswer, Answer, Codes
<1> QED
  BY <1>1, <1>2 DEF TypeOK, ConnTypeOK, Read

LEMMA TakesType ==
  ASSUME TypeOK, NEW b \in Bindings, Takes(b)
  PROVE  /\ calls' \in [Keys -> Calls \cup {NoCall}]
         /\ runs' \in [Commands -> Nat]
<1>1. b.key \in Keys /\ b.digest \in Digests /\ b.from \in Pairs
  BY DEF Bindings
<1>2. [digest |-> b.digest, from |-> b.from, done |-> FALSE] \in Calls
  BY <1>1 DEF Calls
<1> QED
  BY <1>1, <1>2, CommandType DEF TypeOK, UpstreamTypeOK, Takes

LEMMA AbandonedType ==
  ASSUME TypeOK, NEW b \in Bindings, Abandoned(b), UNCHANGED said
  PROVE  UpstreamTypeOK'
BY TakesType DEF Abandoned, TypeOK, UpstreamTypeOK

LEMMA TypeInit == Init => TypeOK
<1> SUFFICES ASSUME Init PROVE TypeOK
  OBVIOUS
<1>1. 0 \in Times /\ 0 \in Nat /\ 0 \in 0..MaxFaults
  BY TimeAssumption DEF Times
<1>2. NoAnswer \in Answer
  BY DEF NoAnswer, Answer, Codes
<1>3. ConnTypeOK
  BY <1>1, <1>2 DEF Init, ConnTypeOK
<1>4. UpstreamTypeOK
  BY <1>1 DEF Init, UpstreamTypeOK
<1> QED
  BY <1>1, <1>3, <1>4 DEF Init, TypeOK

\* What the caller does.
LEMMA CallerType ==
  ASSUME TypeOK, NEW c \in Conns, Arrive(c) \/ Repeat(c) \/ Close(c),
         UNCHANGED attempt
  PROVE  TypeOK'
<1>1. CASE \E r \in Requests : Read(c, r)
  <2>1. ConnTypeOK'
    BY <1>1, ReadType
  <2> QED
    BY <1>1, <2>1 DEF Read, TypeOK, UpstreamTypeOK, upstreamVars
<1>2. CASE Close(c)
  <2>1. NoAnswer \in Answer
    BY DEF NoAnswer, Answer, Codes
  <2> QED
    BY <1>2, <2>1 DEF Close, TypeOK, ConnTypeOK, UpstreamTypeOK, upstreamVars
<1>3. Arrive(c) => \E r \in Requests : Read(c, r)
  BY DEF Arrive, TypeOK, Requests
<1>4. Repeat(c) => \E r \in Requests : Read(c, r)
  BY DEF Repeat, TypeOK, ConnTypeOK
<1> QED
  BY <1>1, <1>2, <1>3, <1>4

\* The handler up to the forwarded request.
LEMMA BindingType ==
  ASSUME TypeOK, NEW c \in Conns, Screen(c) \/ Confirm(c) \/ ConfirmFails(c),
         UNCHANGED attempt
  PROVE  TypeOK'
<1>1. pc[c] # "free" /\ req[c] \in Requests
  BY DEF TypeOK, ConnTypeOK, Screen, Confirm, ConfirmFails
<1>2. CASE Screen(c)
  <2>1. CASE \E code \in Codes : Reply(c, code, "none")
    BY <1>1, <1>2, <2>1, ReplyType
    DEF Screen, TypeOK, UpstreamTypeOK, upstreamVars
  <2>2. CASE /\ pc' = [pc EXCEPT ![c] = "confirm"]
             /\ UNCHANGED <<req, since, writeBy, sent, began, ans>>
    BY <1>1, <1>2, <2>2
    DEF Screen, TypeOK, ConnTypeOK, UpstreamTypeOK, upstreamVars
  <2> QED
    BY <1>2, <2>1, <2>2 DEF Screen, Codes, Repeatable
<1>3. CASE Confirm(c)
  <2> DEFINE b == Bind(Home[c], req[c])
  <2>1. b \in Bindings /\ b.from = <<Home[c], req[c]>> /\ b.from \in Pairs
    BY <1>1, HomeType, BindType DEF Bindings
  <2>2. CASE \E code \in Codes : Reply(c, code, "none") /\ UNCHANGED said
    BY <1>1, <1>3, <2>2, ReplyType DEF Confirm, TypeOK, UpstreamTypeOK
  <2>3. CASE /\ pc' = [pc EXCEPT ![c] = "upstream"]
             /\ sent' = [sent EXCEPT ![c] = b]
             /\ began' = [began EXCEPT ![c] = now]
             /\ said' = said \cup {b.from}
             /\ UNCHANGED <<req, since, writeBy, ans>>
    <3> HIDE DEF b
    <3>1. ConnTypeOK'
      BY <1>1, <2>1, <2>3 DEF TypeOK, ConnTypeOK
    <3> QED
      BY <1>3, <2>1, <2>3, <3>1 DEF Confirm, TypeOK, UpstreamTypeOK
  <2> QED
    BY <1>3, <2>2, <2>3 DEF Confirm, Codes, Repeatable
<1>4. CASE ConfirmFails(c)
  BY <1>1, <1>4, ReplyType, FaultType
  DEF ConfirmFails, TypeOK, UpstreamTypeOK, upstreamVars, Codes, Repeatable
<1> QED
  BY <1>2, <1>3, <1>4

\* The upstream's answers.
LEMMA AnswerType ==
  ASSUME TypeOK, NEW c \in Conns,
         CallMCP(c) \/ Search(c) \/ Forward(c) \/ StreamEnds(c) \/ StreamBreaks(c),
         UNCHANGED attempt
  PROVE  TypeOK'
<1>1. pc[c] # "free" /\ sent[c] \in Bindings
  BY DEF TypeOK, ConnTypeOK, CallMCP, Search, Forward, StreamEnds, StreamBreaks
<1>2. WorldTypeOK'
  BY FaultType
  DEF TypeOK, WorldTypeOK, CallMCP, Search, Forward, StreamEnds, StreamBreaks
<1>3. UpstreamTypeOK'
  BY <1>1, TakesType
  DEF TypeOK, UpstreamTypeOK, CallMCP, Search, Forward, StreamEnds,
      StreamBreaks, upstreamVars
<1>4. ConnTypeOK'
  <2>1. CASE \E code \in Codes, state \in {"none", "running", "done", "partial"} :
               Reply(c, code, state)
    BY <1>1, <2>1, ReplyType
  <2>2. CASE /\ pc' = [pc EXCEPT ![c] = "stream"]
             /\ writeBy' = [writeBy EXCEPT ![c] = StreamDeadline(sent[c])]
             /\ UNCHANGED <<req, since, sent, began, ans>>
    <3>1. StreamDeadline(sent[c]) \in Nat
      BY <1>1, TimeAssumption DEF StreamDeadline, Bindings
    <3> QED
      BY <1>1, <2>2, <3>1 DEF TypeOK, ConnTypeOK
  <2> QED
    BY <2>1, <2>2
    DEF CallMCP, Search, Forward, StreamEnds, StreamBreaks, Codes, Repeatable
<1> QED
  BY <1>2, <1>3, <1>4 DEF TypeOK, WorldTypeOK

\* Calls that end without an answer.
LEMMA CutType ==
  ASSUME TypeOK, NEW c \in Conns, UpstreamFails(c) \/ TimesOut(c),
         UNCHANGED attempt
  PROVE  TypeOK'
<1>1. pc[c] # "free" /\ sent[c] \in Bindings
  BY DEF TypeOK, ConnTypeOK, UpstreamFails, TimesOut
<1>2. WorldTypeOK'
  BY FaultType DEF TypeOK, WorldTypeOK, UpstreamFails, TimesOut
<1>3. UpstreamTypeOK'
  BY <1>1, AbandonedType
  DEF TypeOK, UpstreamTypeOK, UpstreamFails, TimesOut, Cut
<1>4. ConnTypeOK'
  <2>1. CASE UpstreamFails(c)
    BY <1>1, <2>1, ReplyType DEF UpstreamFails, Codes, Repeatable
  <2>2. ASSUME NEW code \in {"UNAVAILABLE", "TIMEOUT"}, Cut(c, code)
        PROVE  ConnTypeOK'
    BY <1>1, <2>2, ReplyType DEF Cut, Codes, Repeatable
  <2> QED
    BY <2>1, <2>2 DEF TimesOut
<1> QED
  BY <1>2, <1>3, <1>4 DEF TypeOK, WorldTypeOK

LEMMA TypeNext == TypeOK /\ [Next]_vars => TypeOK'
<1> SUFFICES ASSUME TypeOK, [Next]_vars PROVE TypeOK'
  OBVIOUS
<1>1. ASSUME NEW c \in Conns, Handle(c), UNCHANGED attempt
      PROVE  TypeOK'
  BY <1>1, BindingType, AnswerType, CutType DEF Handle
<1>2. ASSUME NEW k \in Keys, Completes(k), UNCHANGED attempt
      PROVE  TypeOK'
  <2>1. calls' \in [Keys -> Calls \cup {NoCall}]
    BY <1>2 DEF Completes, TypeOK, UpstreamTypeOK, Calls
  <2> QED
    BY <1>2, <2>1 DEF Completes, TypeOK, ConnTypeOK, UpstreamTypeOK, connVars
<1>3. CASE LateCall /\ UNCHANGED attempt
  BY <1>3, TakesType
  DEF LateCall, TypeOK, ConnTypeOK, UpstreamTypeOK, connVars
<1>4. CASE Replace /\ UNCHANGED attempt
  BY <1>4, FaultType
  DEF Replace, TypeOK, ConnTypeOK, UpstreamTypeOK, connVars, upstreamVars
<1>5. CASE Tick /\ UNCHANGED attempt
  BY <1>5, TimeAssumption
  DEF Tick, TypeOK, ConnTypeOK, UpstreamTypeOK, connVars, upstreamVars, Times
<1>6. CASE UNCHANGED vars
  BY <1>6
  DEF vars, TypeOK, ConnTypeOK, UpstreamTypeOK, connVars, upstreamVars
<1> QED
  BY <1>1, <1>2, <1>3, <1>4, <1>5, <1>6, CallerType DEF Next, Step

\* Every variable of the relays keeps its type: what is open has a request of
\* its caller, what is under way a binding of it, and no deadline is negative.
THEOREM TypeCorrect == Spec => []TypeOK
<1> QED
  BY TypeInit, TypeNext, PTL DEF Spec

-----------------------------------------------------------------------------
(***************************************************************************)
(* What is forwarded is a binding of its caller's request, what an upstream  *)
(* knows came from one, and a command has one identity.                     *)
(***************************************************************************)
\* A binding of a request that was forwarded.
Faithful(b) == b = Bind(b.from[1], b.from[2]) /\ b.from \in said

Owned(c) ==
  calls[sent[c].key] # NoCall /\ calls[sent[c].key].from = Mine(c)

Reused(c) == \E p \in said \ {Mine(c)} : Command(p) = Command(Mine(c))

CallInv ==
  \A k \in Keys : calls[k] # NoCall =>
    /\ Identity(calls[k].from[1], calls[k].from[2]) = k
    /\ calls[k].digest = Digest(calls[k].from[1], calls[k].from[2])
    /\ calls[k].from \in said

\* A command that was acted on left the call its identity finds.
RunInv ==
  \A p \in Pairs :
    /\ runs[Command(p)] <= 1
    /\ runs[Command(p)] = 1 => calls[Identity(p[1], p[2])] # NoCall

UpstreamInv == CallInv /\ RunInv /\ \A b \in late : Faithful(b)

\* The request under way or answered on a connection.
ConnInv(c) ==
  /\ pc[c] # "done" => ans[c] = NoAnswer
  /\ \/ pc[c] \in {"upstream", "stream"}
     \/ ans[c].state # "none" \/ ans[c].code = "CONFLICT"
     => sent[c] \in Bindings /\ Faithful(sent[c]) /\ sent[c].from = Mine(c)
  /\ pc[c] = "stream" =>
       Owned(c) /\ sent[c].kind = "model" /\ writeBy[c] = StreamDeadline(sent[c])
  /\ ans[c].state # "none" /\ sent[c].kind # "knowledge" => Owned(c)
  /\ ans[c].code = "CONFLICT" /\ req[c].kind = "mcp" => Reused(c)

IInv == TypeOK /\ UpstreamInv /\ \A c \in Conns : ConnInv(c)

\* Nothing an upstream knows or was told is forgotten, and time passes.
Grows ==
  /\ \A k \in Keys : calls[k] # NoCall =>
       calls'[k] # NoCall /\ calls'[k].from = calls[k].from
  /\ said \subseteq said'
  /\ now' >= now

LEMMA BindingShape ==
  ASSUME TypeOK, NEW b, Faithful(b)
  PROVE  /\ b.from \in Pairs /\ b.from = <<b.from[1], b.from[2]>>
         /\ b.kind = b.from[2].kind
         /\ b.key = Identity(b.from[1], b.from[2])
         /\ b.digest = Digest(b.from[1], b.from[2])
         /\ b \in Bindings
<1>1. b.from \in Pairs
  BY DEF Faithful, TypeOK, UpstreamTypeOK
<1>2. b.from[1] \in Instances /\ b.from[2] \in Requests
      /\ b.from = <<b.from[1], b.from[2]>>
  BY <1>1 DEF Pairs
<1>3. b \in Bindings
  BY <1>2, BindType DEF Faithful
<1> QED
  BY <1>1, <1>2, <1>3 DEF Faithful, Bind

\* One command has one identity, and one identity among tool calls one
\* command: the instance and the id are in both.
LEMMA CommandIdentity ==
  ASSUME NEW p \in Pairs, NEW q \in Pairs, Command(p) = Command(q)
  PROVE  Identity(p[1], p[2]) = Identity(q[1], q[2])
BY DEF Command, Identity

LEMMA ToolIdentity ==
  ASSUME NEW p \in Pairs, NEW q \in Pairs, p[2].kind = "mcp",
         Identity(p[1], p[2]) = Identity(q[1], q[2])
  PROVE  Command(p) = Command(q)
<1>1. Identity(p[1], p[2])[1] = p[2].kind /\ Identity(q[1], q[2])[1] = q[2].kind
  BY DEF Identity
<1>2. q[2].kind = "mcp"
  BY <1>1
<1> QED
  BY <1>2 DEF Command, Identity

\* An upstream that takes a binding has its caller's own call after it.
LEMMA TakesInv ==
  ASSUME IInv, NEW b, Faithful(b), Takes(b), UNCHANGED <<said, now>>,
         \A a \in late' : Faithful(a)
  PROVE  /\ UpstreamInv' /\ Grows
         /\ calls'[b.key] # NoCall /\ calls'[b.key].from = b.from
<1>1. /\ b.from \in Pairs /\ b.from = <<b.from[1], b.from[2]>>
      /\ b.key = Identity(b.from[1], b.from[2])
      /\ b.digest = Digest(b.from[1], b.from[2])
      /\ b \in Bindings /\ b.key \in Keys
  BY BindingShape DEF IInv, Bindings
<1>2. \A a : Faithful(a)' <=> Faithful(a)
  BY DEF Faithful
<1>3. Command(b.from) \in Commands
  BY <1>1, CommandType
<1>4. CASE calls[b.key] = NoCall
  <2> DEFINE call == [digest |-> b.digest, from |-> b.from, done |-> FALSE]
  <2>1. /\ calls' = [calls EXCEPT ![b.key] = call]
        /\ runs' = [runs EXCEPT ![Command(b.from)] = @ + 1]
    BY <1>4 DEF Takes
  <2>2. call \in Calls /\ call # NoCall
    <3>1. b.digest \in Digests /\ b.from \in Pairs
      BY <1>1 DEF Bindings
    <3>2. call \in Calls
      BY <3>1 DEF Calls
    <3> QED
      BY <3>2, CallAssumption
  <2>3. calls \in [Keys -> Calls \cup {NoCall}] /\ runs \in [Commands -> Nat]
    BY DEF IInv, TypeOK, UpstreamTypeOK
  <2>4. calls'[b.key] = call /\ \A k \in Keys \ {b.key} : calls'[k] = calls[k]
    BY <1>1, <2>1, <2>3
  <2>5. Grows
    BY <1>4, <2>2, <2>4 DEF Grows, IInv, TypeOK, Times
  <2>6. CallInv'
    <3>1. call.from = b.from /\ call.digest = b.digest
      OBVIOUS
    <3> QED
      BY <1>1, <2>4, <3>1 DEF IInv, UpstreamInv, CallInv, Faithful
  <2>7. RunInv'
    <3> SUFFICES ASSUME NEW p \in Pairs
                 PROVE  /\ runs'[Command(p)] <= 1
                        /\ runs'[Command(p)] = 1 =>
                             calls'[Identity(p[1], p[2])] # NoCall
      BY DEF RunInv
    <3>1. /\ runs[Command(p)] <= 1
          /\ runs[Command(p)] = 1 => calls[Identity(p[1], p[2])] # NoCall
      BY DEF IInv, UpstreamInv, RunInv
    <3>2. Identity(p[1], p[2]) \in Keys /\ Command(p) \in Commands
      BY CommandType DEF Keys
    <3>3. CASE Command(p) = Command(b.from)
      <4>1. Identity(p[1], p[2]) = b.key
        BY <1>1, <3>3, CommandIdentity
      <4>2. runs[Command(p)] = 0
        BY <1>4, <2>3, <3>1, <3>2, <4>1
      <4> QED
        BY <2>1, <2>2, <2>3, <2>4, <3>2, <3>3, <4>1, <4>2
    <3>4. CASE Command(p) # Command(b.from)
      BY <2>1, <2>2, <2>3, <2>4, <3>1, <3>2, <3>4
    <3> QED
      BY <3>3, <3>4
  <2> QED
    BY <1>2, <2>2, <2>4, <2>5, <2>6, <2>7 DEF IInv, UpstreamInv
<1>5. CASE calls[b.key] # NoCall
  <2>1. calls[b.key].digest = b.digest /\ UNCHANGED <<calls, runs>>
    BY <1>5 DEF Takes
  <2>2. /\ calls[b.key].from \in Pairs
        /\ calls[b.key].digest = Digest(calls[b.key].from[1], calls[b.key].from[2])
    BY <1>1, <1>5 DEF IInv, UpstreamInv, CallInv, TypeOK, UpstreamTypeOK
  <2>3. calls[b.key].from = b.from
    BY <1>1, <2>1, <2>2 DEF Digest, Pairs
  <2>4. CallInv' /\ RunInv' /\ Grows
    BY <2>1 DEF IInv, UpstreamInv, CallInv, RunInv, Grows, TypeOK, Times
  <2> QED
    BY <1>2, <1>5, <2>1, <2>3, <2>4 DEF IInv, UpstreamInv
<1> QED
  BY <1>4, <1>5

-----------------------------------------------------------------------------
(***************************************************************************)
(* What a step does to one connection, and leaves of the others.            *)
(***************************************************************************)
Same(d) ==
  /\ pc'[d] = pc[d] /\ req'[d] = req[d] /\ writeBy'[d] = writeBy[d]
  /\ sent'[d] = sent[d] /\ ans'[d] = ans[d]

LEMMA OthersKept ==
  ASSUME IInv, TypeOK', Grows, NEW d \in Conns, Same(d)
  PROVE  ConnInv(d)'
<1>1. /\ ConnInv(d)
      /\ Mine(d)' = Mine(d)
      /\ Faithful(sent[d]) => Faithful(sent[d])'
      /\ Reused(d) => Reused(d)'
  BY DEF IInv, Same, Mine, Faithful, Grows, Reused
<1>2. sent[d] \in Bindings => sent[d].key \in Keys
  BY DEF Bindings
<1>3. sent[d] \in Bindings /\ Owned(d) => Owned(d)'
  BY <1>1, <1>2 DEF Owned, Grows, Same
<1>4. \/ pc[d] \in {"upstream", "stream"}
      \/ ans[d].state # "none" \/ ans[d].code = "CONFLICT"
      => sent[d] \in Bindings
  BY <1>1 DEF ConnInv
<1> QED
  BY <1>1, <1>3, <1>4 DEF ConnInv, Same

LEMMA OneConn ==
  ASSUME IInv, TypeOK', UpstreamInv', Grows, NEW c \in Conns, ConnInv(c)',
         \A d \in Conns \ {c} : Same(d)
  PROVE  IInv'
BY OthersKept DEF IInv

LEMMA CallsKept ==
  ASSUME IInv, UNCHANGED <<calls, runs, now>>, said \subseteq said',
         \A a \in late' : Faithful(a)'
  PROVE  UpstreamInv' /\ Grows
BY DEF IInv, UpstreamInv, CallInv, RunInv, Grows, TypeOK, Times

LEMMA AbandonedInv ==
  ASSUME IInv, NEW b, Faithful(b), Abandoned(b), UNCHANGED <<said, now>>
  PROVE  UpstreamInv' /\ Grows
<1>1. \A a : Faithful(a)' <=> Faithful(a)
  BY DEF Faithful
<1>2. \A a \in late : Faithful(a)
  BY DEF IInv, UpstreamInv
<1>3. CASE Takes(b) /\ UNCHANGED late
  BY <1>2, <1>3, TakesInv
<1>4. CASE UNCHANGED <<calls, runs>> /\ late' \subseteq late \cup {b}
  BY <1>1, <1>2, <1>4, CallsKept
<1> QED
  BY <1>3, <1>4 DEF Abandoned

\* An answer is written on what holds of it.
LEMMA ReplyInv ==
  ASSUME IInv, TypeOK', UpstreamInv', Grows, NEW c \in Conns, pc[c] # "free",
         NEW code, NEW state, Reply(c, code, state),
         state # "none" \/ code = "CONFLICT" => pc[c] \in {"upstream", "stream"},
         state # "none" /\ sent[c].kind # "knowledge" => Owned(c)',
         code = "CONFLICT" /\ req[c].kind = "mcp" => Reused(c)'
  PROVE  IInv'
<1>1. /\ pc'[c] = "done" /\ req'[c] = req[c] /\ sent'[c] = sent[c]
      /\ ans'[c] \in {[code |-> code, state |-> state],
                      [code |-> "LOST", state |-> "none"]}
  BY DEF Reply, IInv, TypeOK, ConnTypeOK
<1>2. \A d \in Conns \ {c} : Same(d)
  BY DEF Reply, Same, IInv, TypeOK, ConnTypeOK
<1>3. /\ ans'[c].state # "none" => ans'[c].state = state
      /\ ans'[c].code = "CONFLICT" => ans'[c].code = code
  BY <1>1
<1>4. Faithful(sent[c]) => Faithful(sent[c])'
  BY <1>1 DEF Faithful, Grows
<1>5. Mine(c)' = Mine(c)
  BY <1>1 DEF Mine
<1>6. ConnInv(c)'
  <2>1. state # "none" \/ code = "CONFLICT" =>
          sent'[c] \in Bindings /\ Faithful(sent[c])' /\ sent'[c].from = Mine(c)'
    BY <1>1, <1>4, <1>5 DEF IInv, ConnInv
  <2> QED
    BY <1>1, <1>3, <2>1 DEF ConnInv
<1> QED
  BY <1>2, <1>6, OneConn

\* What the caller does.
LEMMA CallerInv ==
  ASSUME IInv, NEW c \in Conns, Arrive(c) \/ Repeat(c) \/ Close(c),
         UNCHANGED attempt
  PROVE  IInv'
<1>1. TypeOK'
  BY CallerType DEF IInv
<1>2. /\ pc'[c] \in {"screen", "free"} /\ ans'[c] = NoAnswer
      /\ \A d \in Conns \ {c} : Same(d)
      /\ UNCHANGED <<upstreamVars, now>>
  BY DEF Arrive, Repeat, Close, Read, Same, IInv, TypeOK, ConnTypeOK
<1>3. UpstreamInv' /\ Grows
  <2>1. \A a \in late' : Faithful(a)'
    BY <1>2 DEF IInv, UpstreamInv, Faithful, upstreamVars
  <2> QED
    BY <1>2, <2>1, CallsKept DEF upstreamVars
<1>4. ConnInv(c)'
  BY <1>2 DEF ConnInv, NoAnswer
<1> QED
  BY <1>1, <1>2, <1>3, <1>4, OneConn

\* The handler up to the forwarded request.
LEMMA BindingInv ==
  ASSUME IInv, NEW c \in Conns, Screen(c) \/ Confirm(c) \/ ConfirmFails(c),
         UNCHANGED attempt
  PROVE  IInv'
<1>1. TypeOK'
  BY BindingType DEF IInv
<1>2. /\ pc[c] \in {"screen", "confirm"} /\ req[c] \in Requests
      /\ ans[c] = NoAnswer
  BY DEF IInv, TypeOK, ConnTypeOK, ConnInv, Screen, Confirm, ConfirmFails
<1>3. UpstreamInv' /\ Grows
  <2>1. UNCHANGED <<calls, late, runs, now>> /\ said \subseteq said'
    BY DEF Screen, Confirm, ConfirmFails, upstreamVars
  <2>2. \A a \in late' : Faithful(a)'
    BY <2>1 DEF IInv, UpstreamInv, Faithful
  <2> QED
    BY <2>1, <2>2, CallsKept
<1>4. CASE \E code \in Codes \ {"CONFLICT"} : Reply(c, code, "none")
  BY <1>1, <1>2, <1>3, <1>4, ReplyInv
<1>5. CASE /\ pc' = [pc EXCEPT ![c] = "confirm"]
           /\ UNCHANGED <<req, since, writeBy, sent, began, ans>>
  <2>1. \A d \in Conns \ {c} : Same(d)
    BY <1>5 DEF Same, IInv, TypeOK, ConnTypeOK
  <2>2. ConnInv(c)'
    BY <1>2, <1>5 DEF ConnInv, NoAnswer, IInv, TypeOK, ConnTypeOK
  <2> QED
    BY <1>1, <1>3, <2>1, <2>2, OneConn
<1>6. CASE /\ pc' = [pc EXCEPT ![c] = "upstream"]
           /\ sent' = [sent EXCEPT ![c] = Bind(Home[c], req[c])]
           /\ began' = [began EXCEPT ![c] = now]
           /\ said' = said \cup {Bind(Home[c], req[c]).from}
           /\ UNCHANGED <<req, since, writeBy, ans>>
  <2> DEFINE b == Bind(Home[c], req[c])
  <2>1. b \in Bindings /\ b.from = <<Home[c], req[c]>>
    BY <1>2, HomeType, BindType
  <2>2. b.from[1] = Home[c] /\ b.from[2] = req[c]
    BY <2>1
  <2>3. sent'[c] = b /\ b.from \in said' /\ Mine(c)' = b.from
    BY <1>6, <2>1 DEF Mine, IInv, TypeOK, ConnTypeOK
  <2>4. b = Bind(b.from[1], b.from[2])
    BY <2>2
  <2>5. \A d \in Conns \ {c} : Same(d)
    BY <1>6 DEF Same, IInv, TypeOK, ConnTypeOK
  <2> HIDE DEF b
  <2>6. /\ pc'[c] = "upstream"
        /\ ans'[c].state = "none" /\ ans'[c].code = "NONE" /\ ans'[c] = NoAnswer
    BY <1>2, <1>6 DEF NoAnswer, IInv, TypeOK, ConnTypeOK
  <2>7. Faithful(sent[c])'
    BY <2>3, <2>4 DEF Faithful
  <2>8. ConnInv(c)'
    BY <2>1, <2>3, <2>6, <2>7 DEF ConnInv
  <2> QED
    BY <1>1, <1>3, <2>5, <2>8, OneConn
<1> QED
  BY <1>4, <1>5, <1>6 DEF Screen, Confirm, ConfirmFails, Codes, Repeatable

\* What is under way is a binding of its caller's own request.
LEMMA UnderWay ==
  ASSUME IInv, NEW c \in Conns, pc[c] \in {"upstream", "stream"}
  PROVE  /\ sent[c] \in Bindings /\ Faithful(sent[c]) /\ sent[c].from = Mine(c)
         /\ sent[c].kind = req[c].kind /\ sent[c].key \in Keys
         /\ ans[c] = NoAnswer
<1>1. /\ sent[c] \in Bindings /\ Faithful(sent[c]) /\ sent[c].from = Mine(c)
      /\ ans[c] = NoAnswer
  BY DEF IInv, ConnInv
<1>2. sent[c].kind = sent[c].from[2].kind
  BY <1>1, BindingShape DEF IInv
<1> QED
  BY <1>1, <1>2 DEF Mine, Bindings

\* A tool call that conflicts meets another request of its own instance.
LEMMA ConflictReuses ==
  ASSUME IInv, NEW c \in Conns, pc[c] = "upstream", Conflicts(sent[c]),
         req[c].kind = "mcp"
  PROVE  Reused(c)
<1> DEFINE b == sent[c]
           p == calls[b.key].from
<1>1. /\ b.from \in Pairs /\ b.key = Identity(b.from[1], b.from[2])
      /\ b.digest = Digest(b.from[1], b.from[2])
      /\ b.kind = b.from[2].kind /\ b.from = Mine(c)
      /\ b.kind = "mcp" /\ b.key \in Keys
  BY UnderWay, BindingShape DEF IInv
<1>2. /\ calls[b.key] # NoCall /\ calls[b.key].digest # b.digest
      /\ Identity(p[1], p[2]) = b.key
      /\ calls[b.key].digest = Digest(p[1], p[2])
      /\ p \in said
  BY <1>1 DEF Conflicts, IInv, UpstreamInv, CallInv
<1>3. p \in Pairs /\ p # b.from
  BY <1>1, <1>2 DEF IInv, TypeOK, UpstreamTypeOK
<1>4. Command(p) = Command(b.from)
  BY <1>1, <1>2, <1>3, ToolIdentity
<1> QED
  BY <1>1, <1>2, <1>3, <1>4 DEF Reused

\* The upstream's answers.
LEMMA AnswerInv ==
  ASSUME IInv, NEW c \in Conns,
         CallMCP(c) \/ Search(c) \/ Forward(c) \/ StreamEnds(c) \/ StreamBreaks(c),
         UNCHANGED attempt
  PROVE  IInv'
<1>1. TypeOK'
  BY AnswerType DEF IInv
<1>2. pc[c] \in {"upstream", "stream"} /\ pc[c] # "free" /\ UNCHANGED <<late, said, now>>
  BY DEF CallMCP, Search, Forward, StreamEnds, StreamBreaks, upstreamVars
<1>3. /\ sent[c] \in Bindings /\ Faithful(sent[c]) /\ sent[c].from = Mine(c)
      /\ sent[c].kind = req[c].kind /\ sent[c].key \in Keys
      /\ ans[c] = NoAnswer
  BY <1>2, UnderWay
<1>4. \A a \in late' : Faithful(a) /\ Faithful(a)'
  BY <1>2 DEF IInv, UpstreamInv, Faithful
<1>5. CASE \E code, state : Takes(sent[c]) /\ Reply(c, code, state) /\ code # "CONFLICT"
  <2>1. /\ UpstreamInv' /\ Grows
        /\ calls'[sent[c].key] # NoCall /\ calls'[sent[c].key].from = sent[c].from
    BY <1>2, <1>3, <1>4, <1>5, TakesInv
  <2>2. sent'[c] = sent[c] /\ Mine(c)' = Mine(c)
    BY <1>5 DEF Reply, Mine
  <2>3. Owned(c)'
    BY <1>3, <2>1, <2>2 DEF Owned
  <2> QED
    BY <1>1, <1>2, <1>3, <1>5, <2>1, <2>3, ReplyInv
<1>6. CASE Forward(c) /\ Takes(sent[c]) /\ pc' = [pc EXCEPT ![c] = "stream"]
             /\ writeBy' = [writeBy EXCEPT ![c] = StreamDeadline(sent[c])]
             /\ UNCHANGED <<req, since, sent, began, ans>>
  <2>1. /\ UpstreamInv' /\ Grows
        /\ calls'[sent[c].key] # NoCall /\ calls'[sent[c].key].from = sent[c].from
    BY <1>2, <1>3, <1>4, <1>6, TakesInv
  <2>2. \A d \in Conns \ {c} : Same(d)
    BY <1>6 DEF Same, IInv, TypeOK, ConnTypeOK
  <2>3. Mine(c)' = Mine(c) /\ Faithful(sent[c])'
    BY <1>2, <1>3, <1>6 DEF Mine, Faithful
  <2>4. /\ pc'[c] = "stream" /\ writeBy'[c] = StreamDeadline(sent[c])
        /\ ans'[c].state = "none" /\ ans'[c].code = "NONE" /\ ans'[c] = NoAnswer
        /\ sent'[c] = sent[c] /\ sent[c].kind = "model"
    BY <1>3, <1>6 DEF NoAnswer, Forward, IInv, TypeOK, ConnTypeOK
  <2>5. Owned(c)'
    BY <1>3, <2>1, <2>3, <2>4 DEF Owned
  <2>6. ConnInv(c)'
    BY <1>3, <2>3, <2>4, <2>5 DEF ConnInv
  <2> QED
    BY <1>1, <2>1, <2>2, <2>6, OneConn
<1>7. ASSUME NEW code, NEW state, Reply(c, code, state), UNCHANGED <<calls, runs>>,
             state # "none" /\ sent[c].kind # "knowledge" => Owned(c),
             code = "CONFLICT" /\ req[c].kind = "mcp" => Reused(c)
      PROVE  IInv'
  <2>1. UpstreamInv' /\ Grows
    BY <1>2, <1>4, <1>7, CallsKept
  <2>2. sent'[c] = sent[c] /\ Mine(c)' = Mine(c)
    BY <1>7 DEF Reply, Mine
  <2>3. /\ Owned(c) => Owned(c)'
        /\ Reused(c) => Reused(c)'
    BY <1>2, <1>7, <2>2 DEF Owned, Reused
  <2> QED
    BY <1>1, <1>2, <1>3, <1>7, <2>1, <2>2, <2>3, ReplyInv
<1>8. pc[c] = "stream" => Owned(c)
  BY DEF IInv, ConnInv
<1>9. CASE CallMCP(c)
  BY <1>5, <1>7, <1>9, ConflictReuses DEF CallMCP
<1>10. CASE Forward(c)
  BY <1>3, <1>6, <1>7, <1>10 DEF Forward
<1>11. CASE Search(c) \/ StreamEnds(c) \/ StreamBreaks(c)
  BY <1>7, <1>8, <1>11 DEF Search, StreamEnds, StreamBreaks, upstreamVars
<1> QED
  BY <1>9, <1>10, <1>11

\* Calls that end without an answer.
LEMMA CutInv ==
  ASSUME IInv, NEW c \in Conns, UpstreamFails(c) \/ TimesOut(c),
         UNCHANGED attempt
  PROVE  IInv'
<1>1. TypeOK'
  BY CutType DEF IInv
<1>2. pc[c] \in {"upstream", "stream"} /\ pc[c] # "free" /\ UNCHANGED <<said, now>>
  BY DEF UpstreamFails, TimesOut
<1>3. /\ sent[c] \in Bindings /\ Faithful(sent[c]) /\ sent[c].from = Mine(c)
      /\ sent[c].kind = req[c].kind /\ sent[c].key \in Keys
      /\ ans[c] = NoAnswer
  BY <1>2, UnderWay
<1>4. UpstreamInv' /\ Grows
  <2>1. CASE Abandoned(sent[c])
    BY <1>2, <1>3, <2>1, AbandonedInv
  <2>2. CASE UNCHANGED <<calls, late, runs>>
    <3>1. \A a \in late' : Faithful(a)'
      BY <1>2, <2>2 DEF IInv, UpstreamInv, Faithful
    <3> QED
      BY <1>2, <2>2, <3>1, CallsKept
  <2> QED
    BY <2>1, <2>2 DEF UpstreamFails, TimesOut, Cut
<1>5. CASE UpstreamFails(c)
  BY <1>1, <1>2, <1>4, <1>5, ReplyInv DEF UpstreamFails
<1>6. ASSUME NEW code \in {"UNAVAILABLE", "TIMEOUT"}, Cut(c, code)
      PROVE  IInv'
  <2>1. CASE pc[c] = "stream" /\ Reply(c, "OK", "partial") /\ UNCHANGED calls
    <3>1. sent'[c] = sent[c] /\ Mine(c)' = Mine(c)
      BY <2>1 DEF Reply, Mine
    <3>2. Owned(c)'
      BY <2>1, <3>1 DEF IInv, ConnInv, Owned
    <3> QED
      BY <1>1, <1>2, <1>4, <2>1, <3>2, ReplyInv
  <2>2. CASE Reply(c, code, "none")
    BY <1>1, <1>2, <1>4, <1>6, <2>2, ReplyInv
  <2> QED
    BY <1>6, <2>1, <2>2 DEF Cut
<1> QED
  BY <1>5, <1>6 DEF TimesOut

\* Steps that touch no connection.
LEMMA WorldInv ==
  ASSUME IInv, TypeOK', UNCHANGED connVars, UpstreamInv', Grows
  PROVE  IInv'
<1>1. \A d \in Conns : Same(d)
  BY DEF Same, connVars
<1> QED
  BY <1>1, OthersKept DEF IInv

LEMMA IInvNext == IInv /\ [Next]_vars => IInv'
<1> SUFFICES ASSUME IInv, [Next]_vars PROVE IInv'
  OBVIOUS
<1>1. TypeOK'
  BY TypeNext DEF IInv
<1>2. ASSUME NEW c \in Conns, Handle(c), UNCHANGED attempt
      PROVE  IInv'
  BY <1>2, BindingInv, AnswerInv, CutInv DEF Handle
<1>3. ASSUME NEW k \in Keys, Completes(k)
      PROVE  IInv'
  <2>1. calls[k] \in Calls /\ calls' = [calls EXCEPT ![k].done = TRUE]
    BY <1>3 DEF Completes, IInv, TypeOK, UpstreamTypeOK
  <2>2. /\ calls'[k] \in Calls /\ calls'[k] # NoCall
        /\ calls'[k].from = calls[k].from /\ calls'[k].digest = calls[k].digest
        /\ \A j \in Keys \ {k} : calls'[j] = calls[j]
    BY <2>1, CallAssumption DEF Calls, IInv, TypeOK, UpstreamTypeOK
  <2>3. calls[k] # NoCall /\ UNCHANGED <<connVars, late, runs, said, now>>
    BY <1>3 DEF Completes
  <2>4. Grows
    BY <2>2, <2>3 DEF Grows, IInv, TypeOK, Times
  <2>5. CallInv' /\ RunInv'
    <3>1. \A j \in Keys :
            /\ calls'[j] # NoCall <=> calls[j] # NoCall
            /\ calls'[j].from = calls[j].from /\ calls'[j].digest = calls[j].digest
      BY <2>2, <2>3
    <3>2. CallInv'
      BY <2>3, <3>1 DEF IInv, UpstreamInv, CallInv
    <3>3. \A p \in Pairs : Identity(p[1], p[2]) \in Keys
      BY DEF Keys
    <3>4. RunInv'
      BY <2>3, <3>1, <3>3 DEF IInv, UpstreamInv, RunInv
    <3> QED
      BY <3>2, <3>4
  <2>6. \A a \in late' : Faithful(a)'
    BY <2>3 DEF IInv, UpstreamInv, Faithful
  <2> QED
    BY <1>1, <2>3, <2>4, <2>5, <2>6, WorldInv DEF UpstreamInv
<1>4. CASE LateCall
  <2>1. \A a \in late' : Faithful(a) /\ Faithful(a)'
    BY <1>4 DEF LateCall, IInv, UpstreamInv, Faithful
  <2>2. UpstreamInv' /\ Grows
    BY <1>4, <2>1, TakesInv, CallsKept DEF LateCall, IInv, UpstreamInv
  <2> QED
    BY <1>1, <1>4, <2>2, WorldInv DEF LateCall
<1>5. CASE Replace \/ Tick \/ UNCHANGED vars
  <2>1. UNCHANGED <<connVars, upstreamVars>> /\ now' >= now
    BY <1>5 DEF Replace, Tick, vars, IInv, TypeOK, Times
  <2>2. UpstreamInv' /\ Grows
    BY <2>1
    DEF upstreamVars, IInv, UpstreamInv, CallInv, RunInv, Faithful, Grows
  <2> QED
    BY <1>1, <2>1, <2>2, WorldInv
<1> QED
  BY <1>2, <1>3, <1>4, <1>5, CallerInv DEF Next, Step

LEMMA IInvInit == Init => IInv
<1> SUFFICES ASSUME Init PROVE IInv
  OBVIOUS
<1>1. TypeOK
  BY TypeInit
<1>2. UpstreamInv
  BY CommandType DEF Init, UpstreamInv, CallInv, RunInv
<1>3. \A c \in Conns : ConnInv(c)
  BY DEF Init, ConnInv, NoAnswer
<1> QED
  BY <1>1, <1>2, <1>3 DEF IInv

LEMMA Inductive == Spec => []IInv
BY IInvInit, IInvNext, PTL DEF Spec

-----------------------------------------------------------------------------
(***************************************************************************)
(* What the relays promise.                                                 *)
(***************************************************************************)
\* The state or outcome a caller is given is that of a call begun for its own
\* instance and its own bytes: the digest binds both (Bind, BindCall).
THEOREM OwnAnswers == Spec => []AnsweredOwnCall
<1>1. IInv => AnsweredOwnCall
  BY DEF IInv, ConnInv, Owned, AnsweredOwnCall
<1> QED
  BY <1>1, Inductive, PTL

\* A command is acted on once, however often it is repeated, changed or
\* delivered late: its identity finds the call (mcp.go, "never sends again").
THEOREM CommandsActOnce == Spec => []ActedOnce
<1>1. IInv => ActedOnce
  BY DEF IInv, UpstreamInv, RunInv, ActedOnce, Commands
<1> QED
  BY <1>1, Inductive, PTL

\* A tool call that conflicts met another request of its own instance under
\* its command, never another instance's (BindCall's namespaced id).
THEOREM ConflictsAreReuse == Spec => []ConflictMeansReuse
<1>1. IInv => ConflictMeansReuse
  BY DEF IInv, ConnInv, Reused, ConflictMeansReuse
<1> QED
  BY <1>1, Inductive, PTL

\* A call an upstream begins for a binding begins before both deadlines.
LEMMA TakesInTime ==
  ASSUME IInv, NEW b, Faithful(b), Takes(b),
         NEW k \in Keys, calls[k] = NoCall, calls'[k] # NoCall
  PROVE  /\ now < AttemptDeadline
         /\ calls'[k].from[2].deadline \in Nat => now < calls'[k].from[2].deadline
<1>1. /\ b \in Bindings /\ b.from \in Pairs
      /\ b = Bind(b.from[1], b.from[2])
  BY BindingShape DEF IInv, Faithful
<1>2. b.from[1] \in Instances /\ b.from[2] \in Requests
  BY <1>1 DEF Pairs
<1>3. b.from[2].deadline \in Nat => b.deadline <= b.from[2].deadline
  BY <1>1, <1>2, BindType
<1>4. b.deadline \in 0..AttemptDeadline /\ now \in Nat
  BY <1>1 DEF Bindings, IInv, TypeOK, Times
<1>5. calls \in [Keys -> Calls \cup {NoCall}]
  BY DEF IInv, TypeOK, UpstreamTypeOK
<1>6. /\ calls[b.key] = NoCall /\ now < b.deadline
      /\ calls' = [calls EXCEPT ![b.key] =
                     [digest |-> b.digest, from |-> b.from, done |-> FALSE]]
  BY DEF Takes
<1>7. calls'[k].from = b.from
  BY <1>5, <1>6
<1> QED
  BY <1>3, <1>4, <1>6, <1>7, TimeAssumption

\* A call begins before the attempt's deadline and before the one its own
\* caller asked for, also when it arrives after the caller gave up: the bound
\* deadline is the earlier of the two and cut downwards (Bind).
THEOREM CallsBeginInTime == Spec => BegunInTime
<1> DEFINE InTime ==
      \A k \in Keys : calls[k] = NoCall /\ calls'[k] # NoCall =>
        /\ now < AttemptDeadline
        /\ LET asked == calls'[k].from[2].deadline
           IN asked \in Nat => now < asked
<1>1. ASSUME IInv, [Next]_vars PROVE [InTime]_vars
  <2> SUFFICES ASSUME NEW k \in Keys, calls[k] = NoCall, calls'[k] # NoCall
               PROVE  /\ now < AttemptDeadline
                      /\ calls'[k].from[2].deadline \in Nat =>
                           now < calls'[k].from[2].deadline
    OBVIOUS
  <2>1. calls' # calls
    OBVIOUS
  <2>2. \E b : Faithful(b) /\ Takes(b)
    <3>1. ASSUME NEW c \in Conns, Handle(c)
          PROVE  \E b : Faithful(b) /\ Takes(b)
      <4>1. pc[c] \in {"upstream", "stream"} => Faithful(sent[c])
        BY <1>1, UnderWay
      <4>2. CASE CallMCP(c) \/ Forward(c)
        BY <2>1, <4>1, <4>2 DEF CallMCP, Forward
      <4>3. CASE UpstreamFails(c) \/ TimesOut(c)
        BY <2>1, <4>1, <4>3 DEF UpstreamFails, TimesOut, Cut, Abandoned
      <4>4. CASE \/ Screen(c) \/ Confirm(c) \/ ConfirmFails(c) \/ Search(c)
                 \/ StreamEnds(c) \/ StreamBreaks(c)
        BY <2>1, <4>4
        DEF Screen, Confirm, ConfirmFails, Search, StreamEnds, StreamBreaks,
            upstreamVars
      <4> QED
        BY <3>1, <4>2, <4>3, <4>4 DEF Handle
    <3>2. CASE LateCall
      BY <1>1, <2>1, <3>2 DEF LateCall, IInv, UpstreamInv
    <3>3. CASE \E c \in Conns : Arrive(c) \/ Repeat(c) \/ Close(c)
      BY <2>1, <3>3 DEF Arrive, Repeat, Close, Read, upstreamVars
    <3>4. CASE Replace \/ Tick \/ UNCHANGED vars
      BY <2>1, <3>4 DEF Replace, Tick, vars, upstreamVars
    <3>5. ASSUME NEW j \in Keys, Completes(j)
          PROVE  FALSE
      <4>1. calls[j] # NoCall /\ calls' = [calls EXCEPT ![j].done = TRUE]
        BY <3>5 DEF Completes
      <4>2. calls \in [Keys -> Calls \cup {NoCall}]
        BY <1>1 DEF IInv, TypeOK, UpstreamTypeOK
      <4> QED
        BY <4>1, <4>2
    <3> QED
      BY <1>1, <3>1, <3>2, <3>3, <3>4, <3>5 DEF Next, Step
  <2> QED
    BY <1>1, <2>2, TakesInTime
<1> QED
  BY <1>1, Inductive, PTL DEF Spec, BegunInTime

-----------------------------------------------------------------------------
(***************************************************************************)
(* The refinement of CallOnce.  A caller that is told of a state was answered *)
(* OK, and an idle connection asks nothing.                                  *)
(***************************************************************************)
Asking(c) ==
  /\ pc[c] = "free" => req[c] = NoRequest
  /\ ans[c].state # "none" => ans[c].code = "OK"

CallerIInv == IInv /\ \A c \in Conns : Asking(c)

LEMMA AskingWritten ==
  ASSUME TypeOK, \A d \in Conns : Asking(d), NEW c \in Conns,
         NEW code, NEW state, Reply(c, code, state), state # "none" => code = "OK"
  PROVE  \A d \in Conns : Asking(d)'
<1>1. /\ pc'[c] = "done"
      /\ ans'[c] \in {[code |-> code, state |-> state],
                      [code |-> "LOST", state |-> "none"]}
      /\ \A d \in Conns \ {c} : pc'[d] = pc[d] /\ req'[d] = req[d] /\ ans'[d] = ans[d]
  BY DEF Reply, TypeOK, ConnTypeOK
<1>2. ans'[c].state # "none" => ans'[c].code = "OK"
  BY <1>1
<1> QED
  BY <1>1, <1>2 DEF Asking

LEMMA AskingMoved ==
  ASSUME TypeOK, \A d \in Conns : Asking(d), NEW c \in Conns,
         NEW stage \in {"confirm", "upstream", "stream"},
         pc' = [pc EXCEPT ![c] = stage], UNCHANGED <<req, ans>>
  PROVE  \A d \in Conns : Asking(d)'
BY DEF Asking, TypeOK, ConnTypeOK

LEMMA AskingStep ==
  ASSUME CallerIInv, [Next]_vars
  PROVE  CallerIInv'
<1>1. IInv'
  BY IInvNext DEF CallerIInv
<1>2. TypeOK /\ \A c \in Conns : Asking(c)
  BY DEF CallerIInv, IInv
<1>3. ASSUME NEW c \in Conns, Handle(c)
      PROVE  \A d \in Conns : Asking(d)'
  <2>1. CASE \E code, state :
               Reply(c, code, state) /\ (state # "none" => code = "OK")
    BY <1>2, <2>1, AskingWritten
  <2>2. CASE \E stage \in {"confirm", "upstream", "stream"} :
               pc' = [pc EXCEPT ![c] = stage] /\ UNCHANGED <<req, ans>>
    BY <1>2, <2>2, AskingMoved
  <2>3. CASE Screen(c) \/ Confirm(c) \/ ConfirmFails(c)
    BY <2>1, <2>2, <2>3 DEF Screen, Confirm, ConfirmFails, Reply
  <2>4. CASE CallMCP(c) \/ Search(c) \/ Forward(c) \/ StreamEnds(c)
    BY <2>1, <2>2, <2>4 DEF CallMCP, Search, Forward, StreamEnds, Reply
  <2>5. CASE UpstreamFails(c) \/ TimesOut(c) \/ StreamBreaks(c)
    BY <2>1, <2>5 DEF UpstreamFails, TimesOut, Cut, StreamBreaks, Reply
  <2> QED
    BY <1>3, <2>3, <2>4, <2>5 DEF Handle
<1>4. ASSUME NEW c \in Conns, Arrive(c) \/ Repeat(c) \/ Close(c)
      PROVE  \A d \in Conns : Asking(d)'
  BY <1>2, <1>4
  DEF Arrive, Repeat, Close, Read, Asking, NoAnswer, TypeOK, ConnTypeOK
<1>5. ASSUME UNCHANGED connVars
      PROVE  \A d \in Conns : Asking(d)'
  BY <1>2, <1>5 DEF connVars, Asking
<1>6. \A c \in Conns : Asking(c)'
  BY <1>3, <1>4, <1>5 DEF Next, Step, Completes, LateCall, Replace, Tick, vars
<1> QED
  BY <1>1, <1>6 DEF CallerIInv

LEMMA AskingInductive == Spec => []CallerIInv
<1>1. Init => CallerIInv
  BY IInvInit DEF Init, CallerIInv, Asking, NoAnswer
<1> QED
  BY <1>1, AskingStep, PTL DEF Spec

\* Who asks for a call asks for a pair that is not `nothing'.
LEMMA MineIsPair ==
  ASSUME TypeOK, NEW c \in Conns, ~CallsNobody(c)
  PROVE  Mine(c) \in Pairs /\ Mine(c) # NoRequest
<1>1. req[c] \in Requests /\ Home[c] \in Instances
  BY HomeType DEF TypeOK, ConnTypeOK, CallsNobody
<1> QED
  BY <1>1, CallAssumption DEF Mine, Pairs

\* An upstream begins the call of a binding, or had begun it.
UpstreamStep ==
  \/ UNCHANGED <<Begun, Ended>>
  \/ \E k \in Keys : Promise!Begin(k)

LEMMA CallsView == UNCHANGED calls => UNCHANGED <<Begun, Ended>>
BY DEF Begun, Ended

LEMMA TakesBegins ==
  ASSUME IInv, NEW b, Faithful(b), Takes(b)
  PROVE  /\ UpstreamStep /\ b.key \in Keys /\ Begun'[b.key] = b.from
         /\ b.key \in Ended => b.key \in Ended'
<1>1. /\ b.from \in Pairs /\ b.key = Identity(b.from[1], b.from[2])
      /\ b.digest = Digest(b.from[1], b.from[2])
      /\ b \in Bindings /\ b.key \in Keys
  BY BindingShape DEF IInv, Bindings
<1>2. CASE calls[b.key] # NoCall
  <2>1. UNCHANGED calls /\ calls[b.key].digest = b.digest
    BY <1>2 DEF Takes
  <2>2. /\ calls[b.key].from \in Pairs
        /\ calls[b.key].digest = Digest(calls[b.key].from[1], calls[b.key].from[2])
    BY <1>1, <1>2 DEF IInv, UpstreamInv, CallInv, TypeOK, UpstreamTypeOK
  <2>3. calls[b.key].from = b.from
    BY <1>1, <2>1, <2>2 DEF Digest, Pairs
  <2> QED
    BY <1>1, <1>2, <2>1, <2>3, CallsView DEF Begun, UpstreamStep
<1>3. CASE calls[b.key] = NoCall
  <2> DEFINE call == [digest |-> b.digest, from |-> b.from, done |-> FALSE]
  <2>1. calls' = [calls EXCEPT ![b.key] = call]
    BY <1>3 DEF Takes
  <2>2. call # NoCall
    <3>1. call \in Calls
      BY <1>1 DEF Calls, Bindings
    <3> QED
      BY <3>1, CallAssumption
  <2>3. calls'[b.key] = call /\ \A k \in Keys \ {b.key} : calls'[k] = calls[k]
    BY <1>1, <2>1 DEF IInv, TypeOK, UpstreamTypeOK
  <2>4. Begun' = [Begun EXCEPT ![b.key] = b.from]
    <3>1. calls'[b.key] # NoCall /\ calls'[b.key].from = b.from
      BY <2>2, <2>3
    <3>2. \A k \in Keys :
            (IF calls'[k] = NoCall THEN NoRequest ELSE calls'[k].from) =
              IF k = b.key THEN b.from ELSE Begun[k]
      BY <2>3, <3>1 DEF Begun
    <3>3. Begun' = [k \in Keys |-> IF k = b.key THEN b.from ELSE Begun[k]]
      BY <3>2 DEF Begun
    <3> QED
      BY <3>3 DEF Begun
  <2>5. Begun'[b.key] = b.from /\ Begun[b.key] = NoRequest
    BY <1>1, <1>3, <2>4 DEF Begun
  <2>6. Ended' = Ended
    BY <1>1, <1>3, <2>2, <2>3 DEF Ended
  <2>7. ASSUME NEW j \in Keys, Begun[j] = b.from
        PROVE  FALSE
    <3>1. calls[j] # NoCall /\ calls[j].from = b.from
      BY <1>1, <2>7, CallAssumption DEF Begun
    <3>2. j = b.key
      BY <1>1, <3>1 DEF IInv, UpstreamInv, CallInv
    <3> QED
      BY <1>3, <3>1, <3>2
  <2>8. Promise!Begin(b.key)
    BY <1>1, <2>4, <2>5, <2>6, <2>7 DEF Promise!Begin
  <2> QED
    BY <1>1, <2>5, <2>6, <2>8 DEF UpstreamStep
<1> QED
  BY <1>2, <1>3

LEMMA AbandonedBegins ==
  ASSUME IInv, NEW b, Faithful(b), Abandoned(b)
  PROVE  UpstreamStep
BY TakesBegins, CallsView DEF Abandoned, UpstreamStep

\* What a step leaves of every connection's view.
LEMMA ViewsKept ==
  ASSUME \A d \in Conns : req'[d] = req[d] /\ ans'[d].state = ans[d].state
  PROVE  UNCHANGED <<Asked, Told>>
BY DEF Asked, Told, CallsNobody, Mine

LEMMA PromiseQuiet ==
  ASSUME UpstreamStep, UNCHANGED <<Asked, Told>>
  PROVE  [Promise!Next]_<<Begun, Ended, Asked, Told>>
BY DEF UpstreamStep, Promise!Next

\* An answer tells of the caller's own call, as it then is.
LEMMA WriteTells ==
  ASSUME IInv, NEW c \in Conns, pc[c] \in {"upstream", "stream"},
         NEW code, NEW state \in {"none", "running", "done", "partial"},
         Reply(c, code, state), UpstreamStep,
         state # "none" /\ ~CallsNobody(c) => Begun'[sent[c].key] = Mine(c),
         state = "done" /\ ~CallsNobody(c) => sent[c].key \in Ended'
  PROVE  [Promise!Next]_<<Begun, Ended, Asked, Told>>
<1>1. ans[c] = NoAnswer /\ sent[c].key \in Keys
  BY UnderWay
<1>2. /\ UNCHANGED req /\ ans \in [Conns -> Answer]
      /\ ans'[c].state \in {state, "none"}
      /\ \A d \in Conns \ {c} : ans'[d] = ans[d]
  BY DEF Reply, IInv, TypeOK, ConnTypeOK
<1>3. UNCHANGED Asked
  BY <1>2 DEF Asked, CallsNobody, Mine
<1>4. CASE CallsNobody(c) \/ ans'[c].state = "none"
  <2>1. Told' = Told
    BY <1>1, <1>2, <1>4 DEF Told, CallsNobody, NoAnswer
  <2> QED
    BY <1>3, <2>1, PromiseQuiet
<1>5. CASE ~CallsNobody(c) /\ ans'[c].state # "none"
  <2> DEFINE view == IF state = "done" THEN "over" ELSE "begun"
  <2>1. ans'[c].state = state /\ ans[c].state = "none" /\ ~CallsNobody(c)'
    BY <1>1, <1>2, <1>5 DEF NoAnswer, CallsNobody
  <2>2. Told[c] = "nothing" /\ Told' = [Told EXCEPT ![c] = view]
    <3>1. Told[c] = "nothing"
      BY <2>1 DEF Told
    <3>2. Told' = [d \in Conns |-> IF d = c THEN view ELSE Told[d]]
      BY <1>2, <1>5, <2>1 DEF Told, CallsNobody
    <3> QED
      BY <3>1, <3>2 DEF Told
  <2>3. Begun'[sent[c].key] = Asked[c] /\ Begun'[sent[c].key] # NoRequest
    BY <1>2, <1>5, <2>1, MineIsPair DEF Asked, IInv
  <2>4. state = "done" => sent[c].key \in Ended'
    BY <1>5
  <2>5. Promise!Tell(c)
    BY <1>1, <1>3, <2>2, <2>3, <2>4 DEF Promise!Tell
  <2> QED
    BY <2>5 DEF UpstreamStep, Promise!Next
<1> QED
  BY <1>4, <1>5

\* A call a connection owns is one its caller can be told of.
LEMMA OwnedView ==
  ASSUME IInv, NEW c \in Conns, pc[c] = "stream"
  PROVE  /\ sent[c].key \in Keys /\ Begun[sent[c].key] = Mine(c)
         /\ Finished(sent[c]) => sent[c].key \in Ended
<1>1. sent[c].key \in Keys /\ Owned(c)
  BY UnderWay DEF IInv, ConnInv
<1> QED
  BY <1>1 DEF Owned, Begun, Ended, Finished

LEMMA AnswerPromised ==
  ASSUME IInv, NEW c \in Conns,
         CallMCP(c) \/ Search(c) \/ Forward(c) \/ StreamEnds(c) \/ StreamBreaks(c)
  PROVE  [Promise!Next]_<<Begun, Ended, Asked, Told>>
<1>1. pc[c] \in {"upstream", "stream"}
  BY DEF CallMCP, Search, Forward, StreamEnds, StreamBreaks
<1>2. /\ Faithful(sent[c]) /\ sent[c].from = Mine(c) /\ sent[c].key \in Keys
      /\ sent[c].kind = req[c].kind
  BY <1>1, UnderWay
<1>3. ASSUME NEW state \in {"none", "running", "done", "partial"}, NEW code,
             Reply(c, code, state), UNCHANGED calls,
             state # "none" => CallsNobody(c) \/ pc[c] = "stream",
             state = "done" => CallsNobody(c) \/ Finished(sent[c])
      PROVE  [Promise!Next]_<<Begun, Ended, Asked, Told>>
  <2>1. UNCHANGED <<Begun, Ended>> /\ UpstreamStep
    BY <1>3, CallsView DEF UpstreamStep
  <2> QED
    BY <1>1, <1>3, <2>1, WriteTells, OwnedView DEF Reply
<1>4. CASE CallMCP(c)
  <2>1. CASE Takes(sent[c]) /\ Reply(c, "OK", IF Finished(sent[c]) THEN "done" ELSE "running")
    <3>1. /\ UpstreamStep /\ Begun'[sent[c].key] = Mine(c)
          /\ sent[c].key \in Ended => sent[c].key \in Ended'
      BY <1>2, <2>1, TakesBegins
    <3>2. Finished(sent[c]) => sent[c].key \in Ended
      BY <1>2 DEF Finished, Ended
    <3> QED
      BY <1>1, <2>1, <3>1, <3>2, WriteTells DEF Reply
  <2>2. CASE \E code : Reply(c, code, "none") /\ UNCHANGED calls
    BY <1>3, <2>2
  <2> QED
    BY <1>4, <2>1, <2>2 DEF CallMCP
<1>5. CASE Forward(c)
  <2>1. CASE Takes(sent[c]) /\ UNCHANGED <<req, ans>>
    BY <1>2, <2>1, TakesBegins, ViewsKept, PromiseQuiet
  <2>2. CASE \E code : Reply(c, code, "none") /\ UNCHANGED calls
    BY <1>3, <2>2
  <2> QED
    BY <1>5, <2>1, <2>2 DEF Forward
<1>6. CASE Search(c)
  <2>1. CallsNobody(c)
    BY <1>2, <1>6 DEF Search, CallsNobody
  <2> QED
    BY <1>3, <1>6, <2>1 DEF Search, upstreamVars
<1>7. CASE StreamEnds(c) \/ StreamBreaks(c)
  BY <1>3, <1>7 DEF StreamEnds, StreamBreaks, upstreamVars
<1> QED
  BY <1>4, <1>5, <1>6, <1>7

LEMMA CutPromised ==
  ASSUME IInv, NEW c \in Conns, UpstreamFails(c) \/ TimesOut(c)
  PROVE  [Promise!Next]_<<Begun, Ended, Asked, Told>>
<1>1. pc[c] \in {"upstream", "stream"}
  BY DEF UpstreamFails, TimesOut
<1>2. Faithful(sent[c])
  BY <1>1, UnderWay
<1>3. CASE \E code : Abandoned(sent[c]) /\ Reply(c, code, "none")
  BY <1>1, <1>2, <1>3, AbandonedBegins, WriteTells
<1>4. CASE pc[c] = "stream" /\ Reply(c, "OK", "partial") /\ UNCHANGED calls
  <2>1. UNCHANGED <<Begun, Ended>> /\ UpstreamStep /\ Begun[sent[c].key] = Mine(c)
    BY <1>4, CallsView, OwnedView DEF UpstreamStep
  <2> QED
    BY <1>1, <1>4, <2>1, WriteTells
<1> QED
  BY <1>3, <1>4 DEF UpstreamFails, TimesOut, Cut, Reply

LEMMA BindingPromised ==
  ASSUME IInv, NEW c \in Conns, Screen(c) \/ Confirm(c) \/ ConfirmFails(c)
  PROVE  [Promise!Next]_<<Begun, Ended, Asked, Told>>
<1>1. pc[c] \in {"screen", "confirm"} /\ UNCHANGED calls
  BY DEF Screen, Confirm, ConfirmFails, upstreamVars
<1>2. ans[c].state = "none"
  BY <1>1 DEF IInv, ConnInv, NoAnswer
<1>3. ASSUME NEW code, Reply(c, code, "none")
      PROVE  \A d \in Conns : req'[d] = req[d] /\ ans'[d].state = ans[d].state
  BY <1>2, <1>3 DEF Reply, IInv, TypeOK, ConnTypeOK
<1>4. \A d \in Conns : req'[d] = req[d] /\ ans'[d].state = ans[d].state
  BY <1>3 DEF Screen, Confirm, ConfirmFails
<1> QED
  BY <1>1, <1>4, CallsView, ViewsKept, PromiseQuiet DEF UpstreamStep

\* A caller asks, repeats what it was not told the end of, and leaves.
LEMMA CallerPromised ==
  ASSUME CallerIInv, NEW c \in Conns, Arrive(c) \/ Repeat(c) \/ Close(c),
         UNCHANGED attempt
  PROVE  [Promise!Next]_<<Begun, Ended, Asked, Told>>
<1>1. UNCHANGED calls
  BY DEF Arrive, Repeat, Close, Read, upstreamVars
<1>2. UNCHANGED <<Begun, Ended>> /\ UpstreamStep
  BY <1>1, CallsView DEF UpstreamStep
<1>3. TypeOK /\ TypeOK' /\ IInv /\ Asking(c)
  BY CallerType DEF CallerIInv, IInv
<1>4. CASE Close(c)
  <2>1. /\ \A d \in Conns \ {c} : req'[d] = req[d] /\ ans'[d] = ans[d]
        /\ req'[c] = NoRequest
    BY <1>3, <1>4 DEF Close, TypeOK, ConnTypeOK
  <2>2. Asked' = [Asked EXCEPT ![c] = NoRequest]
    <3>1. Asked' = [d \in Conns |-> IF d = c THEN NoRequest ELSE Asked[d]]
      BY <2>1 DEF Asked, CallsNobody, Mine
    <3> QED
      BY <3>1 DEF Asked
  <2>3. Told' = [Told EXCEPT ![c] = "nothing"]
    <3>1. Told' = [d \in Conns |-> IF d = c THEN "nothing" ELSE Told[d]]
      BY <2>1 DEF Told, CallsNobody
    <3> QED
      BY <3>1 DEF Told
  <2>4. Promise!Leave(c)
    BY <2>2, <2>3 DEF Promise!Leave
  <2> QED
    BY <1>2, <2>4 DEF Promise!Next
<1>5. ASSUME NEW r, Read(c, r), req[c] \in {NoRequest, r}, ans[c].state # "done"
      PROVE  [Promise!Next]_<<Begun, Ended, Asked, Told>>
  <2>1. /\ \A d \in Conns \ {c} : req'[d] = req[d] /\ ans'[d] = ans[d]
        /\ req'[c] = r /\ ans'[c].state = "none"
    BY <1>3, <1>5 DEF Read, TypeOK, ConnTypeOK, NoAnswer
  <2>2. CASE CallsNobody(c)'
    <3>1. CallsNobody(c)
      BY <1>5, <2>1, <2>2 DEF CallsNobody
    <3>2. UNCHANGED <<Asked, Told>>
      BY <2>1, <2>2, <3>1 DEF Asked, Told, CallsNobody, Mine
    <3> QED
      BY <1>2, <3>2, PromiseQuiet
  <2>3. CASE ~CallsNobody(c)'
    <3>1. Mine(c)' \in Pairs
      BY <1>3, <2>1, <2>3, HomeType DEF Mine, Pairs, CallsNobody, TypeOK, ConnTypeOK
    <3>2. Asked'[c] = Mine(c)' /\ Asked[c] \in {NoRequest, Asked'[c]}
      BY <1>5, <2>1, <2>3 DEF Asked, CallsNobody, Mine
    <3>3. Asked' = [Asked EXCEPT ![c] = Asked'[c]]
      <4>1. \A d \in Conns \ {c} : Asked'[d] = Asked[d]
        BY <2>1 DEF Asked, CallsNobody, Mine
      <4> QED
        BY <4>1 DEF Asked
    <3>4. Told' = [Told EXCEPT ![c] = "nothing"]
      <4>1. Told' = [d \in Conns |-> IF d = c THEN "nothing" ELSE Told[d]]
        BY <2>1 DEF Told, CallsNobody
      <4> QED
        BY <4>1 DEF Told
    <3>5. Told[c] # "over"
      BY <1>5 DEF Told
    <3>6. Promise!Ask(c)
      BY <3>1, <3>2, <3>3, <3>4, <3>5 DEF Promise!Ask
    <3> QED
      BY <1>2, <3>6 DEF Promise!Next
  <2> QED
    BY <2>2, <2>3
<1>6. CASE Arrive(c)
  <2>1. req[c] = NoRequest /\ ans[c].state = "none"
    BY <1>3, <1>6 DEF Arrive, Asking, IInv, ConnInv, NoAnswer
  <2> QED
    BY <1>5, <1>6, <2>1 DEF Arrive
<1>7. CASE Repeat(c)
  <2>1. ans[c].state # "done"
    BY <1>3, <1>7 DEF Repeat, Unsettled, Asking, Repeatable
  <2> QED
    BY <1>5, <1>7, <2>1 DEF Repeat
<1> QED
  BY <1>4, <1>6, <1>7

LEMMA PromiseStep ==
  ASSUME CallerIInv, [Next]_vars
  PROVE  [Promise!Next]_<<Begun, Ended, Asked, Told>>
<1>1. IInv
  BY DEF CallerIInv
<1>2. ASSUME NEW c \in Conns, Handle(c)
      PROVE  [Promise!Next]_<<Begun, Ended, Asked, Told>>
  BY <1>1, <1>2, BindingPromised, AnswerPromised, CutPromised DEF Handle
<1>3. ASSUME NEW k \in Keys, Completes(k)
      PROVE  [Promise!Next]_<<Begun, Ended, Asked, Told>>
  <2>1. calls[k] \in Calls /\ calls[k] # NoCall
        /\ calls' = [calls EXCEPT ![k].done = TRUE]
    BY <1>1, <1>3 DEF Completes, IInv, TypeOK, UpstreamTypeOK
  <2>2. /\ calls'[k] # NoCall /\ calls'[k].done /\ calls'[k].from = calls[k].from
        /\ \A j \in Keys \ {k} : calls'[j] = calls[j]
    <3>1. calls'[k] = [calls[k] EXCEPT !.done = TRUE]
      BY <1>1, <2>1 DEF IInv, TypeOK, UpstreamTypeOK
    <3>2. calls'[k] \in Calls
      <4>1. calls[k].digest \in Digests /\ calls[k].from \in Pairs
        BY <2>1 DEF Calls
      <4>2. calls'[k] = [digest |-> calls[k].digest, from |-> calls[k].from, done |-> TRUE]
        BY <2>1, <3>1 DEF Calls
      <4> QED
        BY <4>1, <4>2 DEF Calls
    <3>3. calls'[k].done /\ calls'[k].from = calls[k].from
      BY <2>1, <3>1 DEF Calls
    <3>4. \A j \in Keys \ {k} : calls'[j] = calls[j]
      BY <1>1, <2>1 DEF IInv, TypeOK, UpstreamTypeOK
    <3> QED
      BY <3>2, <3>3, <3>4, CallAssumption
  <2>3. UNCHANGED Begun /\ Begun[k] # NoRequest
    <3>1. UNCHANGED Begun
      BY <2>1, <2>2 DEF Begun
    <3>2. calls[k].from \in Pairs
      BY <2>1 DEF Calls
    <3> QED
      BY <2>1, <3>1, <3>2, CallAssumption DEF Begun
  <2>4. Ended' = Ended \cup {k}
    BY <2>2 DEF Ended
  <2>5. UNCHANGED <<Asked, Told>>
    BY <1>3, ViewsKept DEF Completes, connVars
  <2> QED
    BY <2>3, <2>4, <2>5 DEF Promise!End, Promise!Next
<1>4. CASE LateCall
  <2>1. UpstreamStep
    BY <1>1, <1>4, TakesBegins, CallsView DEF LateCall, UpstreamStep, IInv, UpstreamInv
  <2>2. UNCHANGED <<Asked, Told>>
    BY <1>4, ViewsKept DEF LateCall, connVars
  <2> QED
    BY <2>1, <2>2, PromiseQuiet
<1>5. CASE Replace \/ Tick \/ UNCHANGED vars
  <2>1. UNCHANGED <<calls, req, ans>>
    BY <1>5 DEF Replace, Tick, vars, connVars, upstreamVars
  <2> QED
    BY <2>1, CallsView, ViewsKept, PromiseQuiet DEF UpstreamStep
<1> QED
  BY <1>2, <1>3, <1>4, <1>5, CallerPromised DEF Next, Step

\* A tool or model call is begun once for a request, however many connections
\* and instances ask for it, and what each caller is told of it is true of its
\* own call: Relay implements CallOnce.
THEOREM CallOnceImplemented == Spec => ImplementsCallOnce
<1>1. Init => Promise!Init
  BY DEF Init, Promise!Init, Begun, Ended, Asked, Told, CallsNobody
<1>2. CallerIInv /\ [Next]_vars => [Promise!Next]_<<Begun, Ended, Asked, Told>>
  BY PromiseStep
<1> QED
  BY <1>1, <1>2, AskingInductive, PTL DEF Spec, ImplementsCallOnce, Promise!Spec
=============================================================================
