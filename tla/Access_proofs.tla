---------------------------- MODULE Access_proofs ----------------------------
(***************************************************************************)
(* What is proved of Access for every set of connections, requests,         *)
(* registrations, inputs and deadlines.                                     *)
(***************************************************************************)
EXTENDS Access, TLAPS

-----------------------------------------------------------------------------
(***************************************************************************)
(* The decision.                                                            *)
(***************************************************************************)

\* Registration.Confirm never accepts what the promise does not: on a row of
\* the asked Pod, an accepted decision means the purpose is authorized now.
LEMMA ConfirmSound ==
  ASSUME NEW r \in Registration, NEW t \in Nat, NEW p \in Purposes,
         r.own, Confirm(r, t, p) = "ok"
  PROVE  Authorized(r, t, p)
<1>1. /\ r.attempt /\ r.operation # NoOperation /\ r.named /\ r.coherent
      /\ r.epoch = ExecutionEpoch /\ r.launchEpoch = LaunchEpoch /\ r.current
      /\ StateAllows(r.state, p) /\ r.operation.epoch = r.epoch
      /\ ~FenceRefuses(r.operation, p) /\ ~DeadlinePassed(r, t)
  BY DEF Confirm
<1>2. Owner(r)
  BY <1>1 DEF Owner
<1>3. r.operation \in OperationView
  BY <1>1 DEF Registration
<1>4. OperationAllows(r.operation, p)
  BY <1>1, <1>3
  DEF FenceRefuses, Fenced, Controlled, OperationAllows, OperationView,
      Lifecycles, Purposes
<1>5. BeforeDeadlines(r, t)
  BY <1>1, DeadlineAssumption DEF DeadlinePassed, BeforeDeadlines
<1>6. r.state \in Executing
        \cup (IF p = "ForResult" THEN {"RESULT_ACCEPTED"} ELSE {})
  BY <1>1 DEF StateAllows
<1> QED
  BY <1>1, <1>2, <1>4, <1>5, <1>6 DEF Authorized

\* Time only takes authority away: what is authorized at an instant was
\* authorized, on the same registration, at every earlier one.
LEMMA AuthorizedEarlier ==
  ASSUME NEW r \in Registration, NEW t \in Nat, NEW u \in Nat, u <= t,
         NEW p \in Purposes, Authorized(r, t, p)
  PROVE  Authorized(r, u, p)
<1>1. BeforeDeadlines(r, t)
  BY DEF Authorized
<1>2. r.deadline \in Nat
  BY DEF Registration
<1>3. BeforeDeadlines(r, u)
  BY <1>1, <1>2 DEF BeforeDeadlines
<1> QED
  BY <1>3 DEF Authorized

LEMMA PurposeType == \A r : Purpose(r) \in Purposes
BY DEF Purpose, Purposes

-----------------------------------------------------------------------------
(***************************************************************************)
(* Type correctness.  Most steps write one connection's answer and leave    *)
(* the rest alone; the lemmas say what each such part keeps.                *)
(***************************************************************************)

LEMMA ReplyType ==
  ASSUME ServerTypeOK, NEW c \in Conns, NEW code \in Codes,
         NEW body \in Bytes \cup {NoBytes}, Reply(c, code, body), pc[c] # "free"
  PROVE  ServerTypeOK'
<1>1. [code |-> code, proof |-> proof[c], body |-> body] \in Answer
  BY DEF ServerTypeOK, Answer
<1>2. ans' \in [Conns -> Answer]
  BY <1>1 DEF ServerTypeOK, Reply
<1>3. /\ pc' \in [Conns -> PcStates]
      /\ req' \in [Conns -> Requests \cup {NoRequest}]
      /\ reg' \in [Conns -> Rows \cup {Unregistered}]
      /\ proof' \in [Conns -> BOOLEAN]
  BY DEF ServerTypeOK, Reply, PcStates
<1>4. \A d \in Conns : pc'[d] # "free" => req'[d] \in Requests
  BY DEF ServerTypeOK, Reply
<1>5. \A d \in Conns : pc'[d] = "decide" => reg'[d] \in Rows
  BY DEF ServerTypeOK, Reply
<1> QED
  BY <1>2, <1>3, <1>4, <1>5 DEF ServerTypeOK

LEMMA ProceedType ==
  ASSUME ServerTypeOK, NEW c \in Conns, NEW to \in PcStates \ {"decide"},
         Proceed(c, to), pc[c] # "free"
  PROVE  ServerTypeOK'
BY DEF ServerTypeOK, Proceed

LEMMA WatchType ==
  ASSUME HistoryTypeOK, Watch, row' \in Rows \cup {Unregistered},
         told' \subseteq Bytes
  PROVE  HistoryTypeOK'
<1>1. known' \in Rows \cup {Unregistered}
  BY DEF HistoryTypeOK, Watch
<1>2. held' \in [Conns -> BOOLEAN] /\ lost' \in [Conns -> BOOLEAN]
  BY DEF Watch
<1> QED
  BY <1>1, <1>2 DEF HistoryTypeOK

LEMMA OnlyServerType ==
  ASSUME TypeOK, OnlyServer
  PROVE  WorldTypeOK' /\ HistoryTypeOK'
<1>1. WorldTypeOK'
  BY DEF TypeOK, WorldTypeOK, OnlyServer, controlVars
<1>2. HistoryTypeOK'
  BY WatchType
  DEF TypeOK, WorldTypeOK, HistoryTypeOK, OnlyServer, controlVars
<1> QED
  BY <1>1, <1>2

\* An open request is one of Requests, so its name and content are typed.
LEMMA OpenRequest ==
  ASSUME TypeOK, NEW c \in Conns, pc[c] # "free"
  PROVE  req[c] \in Requests /\ req[c].bytes \in Bytes /\ req[c].name \in Names
BY RequestAssumption DEF TypeOK, ServerTypeOK, Request

LEMMA AcceptsType ==
  ASSUME TypeOK, NEW b \in Bytes, Accepts(b)
  PROVE  stage' = b /\ row' \in Rows \cup {Unregistered}
BY RowAssumption DEF TypeOK, WorldTypeOK, Accepts

LEMMA StageOrRejectType ==
  ASSUME TypeOK, NEW c \in Conns, pc[c] # "free", NEW n \in Names,
         NEW b \in Bytes, StageOrReject(c, n, b)
  PROVE  ServerTypeOK' /\ inputs' \in [Names -> Bytes \cup {NoBytes}]
<1>1. \E code \in {"OK", "INPUT_REJECTED"} : Reply(c, code, NoBytes)
  BY DEF StageOrReject
<1>2. ServerTypeOK'
  BY <1>1, ReplyType DEF TypeOK, Codes
<1>3. inputs' \in [Names -> Bytes \cup {NoBytes}]
  BY DEF TypeOK, WorldTypeOK, StageOrReject
<1> QED
  BY <1>2, <1>3

\* What the dispatch may answer by itself.
Refusals == {"ROUTE_FORBIDDEN", "NOT_FOUND", "TOO_LARGE", "INVALID_ARGUMENT"}

LEMMA ScreenedRefuses ==
  ASSUME NEW r, Screened(r) # "OK"
  PROVE  Screened(r) \in Refusals
BY DEF Screened, Refusals

\* The handler steps that touch nothing but their connection.
LEMMA ServerStepType ==
  ASSUME TypeOK, NEW c \in Conns,
         \/ Accept(c) \/ GuardRefuses(c) \/ GuardPasses(c) \/ Dispatch(c)
         \/ Lookup(c) \/ LookupFails(c) \/ Decide(c) \/ ServeScope(c)
         \/ ReadInput(c) \/ ReadArtifact(c) \/ LoadFails(c) \/ Progress(c)
         \/ Upload(c) \/ Unavailable(c)
         \/ PriorStage(c) \/ CallFails(c) \/ SubmitRefused(c) \/ Close(c)
  PROVE  TypeOK'
<1> USE DEF TypeOK
<1>1. OnlyServer
  BY DEF Accept, GuardRefuses, GuardPasses, Dispatch, Lookup, LookupFails,
         Decide, ServeScope, ReadInput, ReadArtifact, LoadFails, Progress,
         Upload, Unavailable,
         PriorStage, CallFails, SubmitRefused, Close, ActionFails, OnlyServer
<1>2. ServerTypeOK'
  <2>1. CASE Accept(c)
    BY <2>1 DEF Accept, ServerTypeOK, PcStates
  <2>2. CASE GuardPasses(c)
    BY <2>2 DEF GuardPasses, ServerTypeOK, PcStates
  <2>3. CASE Lookup(c)
    <3>1. CASE \E code \in Codes : Reply(c, code, NoBytes)
      BY <2>3, <3>1, ReplyType DEF Lookup
    <3>2. CASE /\ row # Unregistered
               /\ reg' = [reg EXCEPT ![c] = row]
               /\ pc' = [pc EXCEPT ![c] = "decide"]
               /\ UNCHANGED <<req, proof, ans>>
      BY <2>3, <3>2 DEF Lookup, ServerTypeOK, WorldTypeOK, PcStates
    <3> QED
      BY <2>3, <3>1, <3>2 DEF Lookup, Codes, RetryableCodes
  <2>4. CASE Close(c)
    <3>1. NoAnswer \in Answer
      BY DEF NoAnswer, Answer, Codes
    <3> QED
      BY <2>4, <3>1 DEF Close, ServerTypeOK, PcStates
  <2>5. CASE Dispatch(c)
    <3>1. CASE Proceed(c, "lookup")
      BY <2>5, <3>1, ProceedType DEF Dispatch, PcStates
    <3>2. CASE \E code \in Refusals : Reply(c, code, NoBytes)
      BY <2>5, <3>2, ReplyType DEF Dispatch, Codes, Refusals
    <3>3. "ROUTE_FORBIDDEN" \in Refusals
      BY DEF Refusals
    <3> QED
      BY <2>5, <3>1, <3>2, <3>3, ScreenedRefuses DEF Dispatch
  <2>6. CASE Decide(c)
    <3>1. CASE Proceed(c, "act")
      BY <2>6, <3>1, ProceedType DEF Decide, PcStates
    <3>2. CASE \E outcome : Reply(c, ScopeError(outcome), NoBytes)
      <4>1. \A outcome : ScopeError(outcome) \in Codes
        BY DEF ScopeError, Codes, AuthorityCodes, RetryableCodes
      <4> QED
        BY <2>6, <3>2, <4>1, ReplyType DEF Decide
    <3> QED
      BY <2>6, <3>1, <3>2 DEF Decide
  <2>7. CASE ReadArtifact(c)
    BY <2>7, ProceedType DEF ReadArtifact, Acting, PcStates
  <2>8. CASE ReadInput(c)
    <3>1. inputs[req[c].name] \in Bytes \cup {NoBytes}
      BY <2>8, OpenRequest DEF ReadInput, Acting, WorldTypeOK
    <3> QED
      BY <2>8, <3>1, ReplyType DEF ReadInput, Acting, Codes
  <2>9. CASE \/ GuardRefuses(c) \/ LookupFails(c) \/ ServeScope(c)
             \/ LoadFails(c) \/ Progress(c) \/ Upload(c) \/ Unavailable(c)
             \/ PriorStage(c) \/ CallFails(c)
             \/ SubmitRefused(c)
    <3>1. /\ \E code \in Codes : Reply(c, code, NoBytes)
          /\ pc[c] # "free"
      BY <2>9
      DEF GuardRefuses, LookupFails, ServeScope, LoadFails, Progress, Upload,
          Unavailable,
          PriorStage, CallFails, SubmitRefused, ActionFails, Acting, Codes,
          GuardCodes, RetryableCodes
    <3> QED
      BY <3>1, ReplyType
  <2> QED
    BY <2>1, <2>2, <2>3, <2>4, <2>5, <2>6, <2>7, <2>8, <2>9
<1> QED
  BY <1>1, <1>2, OnlyServerType

LEMMA TypeStep ==
  ASSUME TypeOK, [Next]_vars
  PROVE  TypeOK'
<1> USE DEF TypeOK
<1>1. ASSUME NEW c \in Conns, StageInput(c)
      PROVE  TypeOK'
  <2>1. StageOrReject(c, req[c].name, req[c].bytes) /\ pc[c] # "free"
    BY <1>1 DEF StageInput, Acting
  <2>2. ServerTypeOK' /\ inputs' \in [Names -> Bytes \cup {NoBytes}]
    BY <2>1, OpenRequest, StageOrRejectType
  <2>3. WorldTypeOK'
    BY <1>1, <2>2 DEF StageInput, WorldTypeOK, controlVars
  <2> QED
    BY <1>1, <2>2, <2>3, WatchType
    DEF StageInput, WorldTypeOK, HistoryTypeOK
<1>2. ASSUME NEW c \in Conns, Download(c)
      PROVE  TypeOK'
  <2>1. pc[c] # "free" /\ req[c].name \in Names
    BY <1>2, OpenRequest DEF Download
  <2>2. ServerTypeOK' /\ inputs' \in [Names -> Bytes \cup {NoBytes}]
    <3>1. PICK b \in Bytes :
            IF DigestOf[b] # Recorded[req[c].name]
            THEN inputs' = inputs /\ Reply(c, "ACTION_REFUSED", NoBytes)
            ELSE StageOrReject(c, req[c].name, b)
      BY <1>2 DEF Download
    <3>2. CASE inputs' = inputs /\ Reply(c, "ACTION_REFUSED", NoBytes)
      BY <2>1, <3>2, ReplyType DEF Codes, WorldTypeOK
    <3>3. CASE StageOrReject(c, req[c].name, b)
      BY <2>1, <3>3, StageOrRejectType
    <3> QED
      BY <3>1, <3>2, <3>3
  <2>3. WorldTypeOK'
    BY <1>2, <2>2 DEF Download, WorldTypeOK, controlVars
  <2> QED
    BY <1>2, <2>2, <2>3, WatchType DEF Download, WorldTypeOK, HistoryTypeOK
<1>3. ASSUME NEW c \in Conns, AcceptedStage(c)
      PROVE  TypeOK'
  <2>1. ServerTypeOK'
    BY <1>3, ReplyType DEF AcceptedStage, Acting, Codes, WorldTypeOK
  <2>2. WorldTypeOK'
    BY <1>3 DEF AcceptedStage, WorldTypeOK, controlVars
  <2>3. told' \subseteq Bytes
    BY <1>3 DEF AcceptedStage, WorldTypeOK, HistoryTypeOK
  <2> QED
    BY <1>3, <2>1, <2>2, <2>3, WatchType DEF AcceptedStage, WorldTypeOK
<1>4. ASSUME NEW c \in Conns,
             SubmitAccepted(c) \/ SubmitAnswerLost(c) \/ SubmitTimesOut(c)
      PROVE  TypeOK'
  <2>1. pc[c] # "free" /\ req[c].bytes \in Bytes
    BY <1>4, OpenRequest
    DEF SubmitAccepted, SubmitAnswerLost, SubmitTimesOut, Acting
  <2>2. stage' \in Bytes \cup {NoBytes} /\ row' \in Rows \cup {Unregistered}
    BY <1>4, <2>1, AcceptsType
    DEF SubmitAccepted, SubmitAnswerLost, SubmitTimesOut, WorldTypeOK
  <2>3. ServerTypeOK'
    BY <1>4, <2>1, <2>2, ReplyType
    DEF SubmitAccepted, SubmitAnswerLost, SubmitTimesOut, Codes, RetryableCodes
  <2>4. WorldTypeOK'
    BY <1>4, <2>1, <2>2
    DEF SubmitAccepted, SubmitAnswerLost, SubmitTimesOut, WorldTypeOK
  <2>5. told' \subseteq Bytes
    BY <1>4, <2>1, AcceptsType
    DEF SubmitAccepted, SubmitAnswerLost, SubmitTimesOut, HistoryTypeOK
  <2> QED
    BY <1>4, <2>2, <2>3, <2>4, <2>5, WatchType
    DEF SubmitAccepted, SubmitAnswerLost, SubmitTimesOut
<1>5. ASSUME LateSubmit \/ ControlMoves \/ Tick
      PROVE  TypeOK'
  <2>1. ServerTypeOK'
    BY <1>5 DEF LateSubmit, ControlMoves, Tick, serverVars, ServerTypeOK
  <2>2. stage' \in Bytes \cup {NoBytes} /\ row' \in Rows \cup {Unregistered}
    BY <1>5, AcceptsType
    DEF LateSubmit, ControlMoves, Tick, controlVars, WorldTypeOK
  <2>3. now' \in 0..MaxTime
    BY <1>5, ClockAssumption DEF LateSubmit, ControlMoves, Tick, WorldTypeOK
  <2>4. WorldTypeOK'
    BY <1>5, <2>2, <2>3
    DEF LateSubmit, ControlMoves, Tick, controlVars, WorldTypeOK
  <2> QED
    BY <1>5, <2>1, <2>2, <2>4, WatchType
    DEF LateSubmit, ControlMoves, Tick, HistoryTypeOK
<1>6. CASE Restart
  <2>1. NoAnswer \in Answer
    BY DEF NoAnswer, Answer, Codes
  <2>2. ServerTypeOK'
    BY <1>6, <2>1 DEF Restart, ServerTypeOK, PcStates
  <2>3. late' \subseteq Bytes
    <3>1. PICK sent \in SUBSET {c \in Conns : Acting(c, "submit")} :
            late' = late \cup {req[c].bytes : c \in sent}
      BY <1>6 DEF Restart
    <3>2. \A c \in sent : req[c].bytes \in Bytes
      BY OpenRequest DEF Acting
    <3> QED
      BY <3>1, <3>2 DEF WorldTypeOK
  <2>4. WorldTypeOK'
    BY <1>6, <2>3 DEF Restart, WorldTypeOK
  <2> QED
    BY <1>6, <2>2, <2>4, WatchType DEF Restart, WorldTypeOK, HistoryTypeOK
<1>7. CASE UNCHANGED vars
  BY <1>7
  DEF vars, serverVars, controlVars, ServerTypeOK, WorldTypeOK, HistoryTypeOK
<1> QED
  BY <1>1, <1>2, <1>3, <1>4, <1>5, <1>6, <1>7, ServerStepType DEF Next, Serve

LEMMA TypeInit == Init => TypeOK
<1> SUFFICES ASSUME Init
             PROVE  TypeOK
  OBVIOUS
<1>1. NoAnswer \in Answer
  BY DEF NoAnswer, Answer, Codes
<1>2. ServerTypeOK
  BY <1>1 DEF Init, ServerTypeOK, PcStates
<1>3. WorldTypeOK /\ HistoryTypeOK
  BY ClockAssumption DEF Init, WorldTypeOK, HistoryTypeOK
<1> QED
  BY <1>2, <1>3 DEF TypeOK

\* The server never leaves its types.
THEOREM TypeCorrect == Spec => []TypeOK
<1>1. TypeOK /\ [Next]_vars => TypeOK'
  BY TypeStep
<1> QED
  BY <1>1, TypeInit, PTL DEF Spec

-----------------------------------------------------------------------------
(***************************************************************************)
(* Grants.  GrantedUnderAuthority is not inductive: between the read of     *)
(* Control and the reading of the clock the registration in hand may no     *)
(* longer be Control's.  What is kept meanwhile is that, should it still     *)
(* authorize the purpose at the present instant, then it did at the instant *)
(* of the read, since time only takes authority away.                       *)
(***************************************************************************)

\* A registration in hand was Control's answer for this Pod within the
\* request.
ReadInWindow ==
  \A c \in Conns :
    pc[c] = "decide" =>
      /\ reg[c].own
      /\ Authorized(reg[c], now, Purpose(req[c])) => held[c]

GrantInv == TypeOK /\ ReadInWindow /\ GrantedUnderAuthority

\* What has been seen to hold for a request stays seen until it leaves.
LEMMA HeldStays ==
  ASSUME Watch, NEW c \in Conns, held[c], pc'[c] # "free"
  PROVE  held'[c]
BY DEF Watch

\* A step after which no connection is newly granted or newly in decision
\* keeps the invariant, whatever Control, the clock and the inputs do.
LEMMA CalmStep ==
  ASSUME GrantInv, TypeOK', Watch, now' >= now,
         \A c \in Conns : Granted(c)' => Granted(c),
         \A c \in Conns : pc'[c] = "decide" =>
           pc[c] = "decide" /\ reg'[c] = reg[c] /\ req'[c] = req[c]
  PROVE  GrantInv'
<1>1. GrantedUnderAuthority'
  <2> SUFFICES ASSUME NEW c \in Conns, Granted(c)'
               PROVE  held'[c]
    BY DEF GrantedUnderAuthority
  <2>1. pc'[c] # "free"
    BY DEF Granted
  <2>2. held[c]
    BY DEF GrantInv, GrantedUnderAuthority
  <2> QED
    BY <2>1, <2>2, HeldStays
<1>2. ReadInWindow'
  <2> SUFFICES ASSUME NEW c \in Conns, pc'[c] = "decide",
                      Authorized(reg[c], now', Purpose(req[c]))
               PROVE  held'[c]
    BY DEF GrantInv, ReadInWindow
  <2>1. now \in Nat /\ now' \in Nat /\ now <= now'
    BY ClockAssumption DEF GrantInv, TypeOK, WorldTypeOK
  <2>2. reg[c] \in Registration
    BY RowAssumption DEF GrantInv, TypeOK, ServerTypeOK
  <2>3. Authorized(reg[c], now, Purpose(req[c]))
    BY <2>1, <2>2, AuthorizedEarlier, PurposeType
  <2>4. held[c]
    BY <2>3 DEF GrantInv, ReadInWindow
  <2> QED
    BY <2>4, HeldStays
<1> QED
  BY <1>1, <1>2 DEF GrantInv

\* An answer other than those of a confirmed request grants nothing.
GrantCodes == {"OK", "INPUT_REJECTED", "ACTION_REFUSED"}

LEMMA ReplyCalm ==
  ASSUME GrantInv, TypeOK', Watch, now' >= now, NEW c \in Conns, NEW code,
         NEW body, Reply(c, code, body), code \in GrantCodes => Granted(c)
  PROVE  GrantInv'
<1>1. \A d \in Conns : Granted(d)' => Granted(d)
  BY DEF Reply, Granted, GrantInv, TypeOK, ServerTypeOK, GrantCodes
<1>2. \A d \in Conns : pc'[d] = "decide" =>
        pc[d] = "decide" /\ reg'[d] = reg[d] /\ req'[d] = req[d]
  BY DEF Reply, GrantInv, TypeOK, ServerTypeOK
<1> QED
  BY <1>1, <1>2, CalmStep

LEMMA StageCalm ==
  ASSUME GrantInv, TypeOK', Watch, now' = now, NEW c \in Conns, NEW n, NEW b,
         StageOrReject(c, n, b), Granted(c)
  PROVE  GrantInv'
<1>1. PICK code : Reply(c, code, NoBytes)
  BY DEF StageOrReject
<1>2. now' >= now
  BY ClockAssumption DEF GrantInv, TypeOK, WorldTypeOK
<1> QED
  BY <1>1, <1>2, ReplyCalm

LEMMA GrantStep ==
  ASSUME GrantInv, [Next]_vars
  PROVE  GrantInv'
<1> USE DEF GrantInv
<1>1. TypeOK'
  BY TypeStep
<1>2. now \in Nat
  BY ClockAssumption DEF TypeOK, WorldTypeOK
\* The read: the registration in hand is Control's at this very instant.
<1>3. ASSUME NEW c \in Conns, Lookup(c)
      PROVE  GrantInv'
  <2>1. Watch /\ now' = now /\ row' = row
    BY <1>3 DEF Lookup, OnlyServer, controlVars
  <2>2. CASE \E code \in RetryableCodes : Reply(c, code, NoBytes)
    BY <1>1, <1>2, <2>1, <2>2, ReplyCalm DEF RetryableCodes, GrantCodes
  <2>3. CASE /\ row # Unregistered /\ row.own
             /\ reg' = [reg EXCEPT ![c] = row]
             /\ pc' = [pc EXCEPT ![c] = "decide"]
             /\ UNCHANGED <<req, proof, ans>>
    <3>1. \A d \in Conns : Granted(d)' => Granted(d) /\ pc'[d] # "free"
      BY <2>3 DEF Granted, TypeOK, ServerTypeOK
    <3>2. GrantedUnderAuthority'
      BY <2>1, <3>1, HeldStays DEF GrantedUnderAuthority
    <3>3. ASSUME NEW d \in Conns, pc'[d] = "decide"
          PROVE  /\ reg'[d].own
                 /\ Authorized(reg'[d], now', Purpose(req'[d])) => held'[d]
      <4>1. CASE d = c
        BY <2>1, <2>3, <3>3, <4>1 DEF Watch, Open, TypeOK, ServerTypeOK
      <4>2. CASE d # c
        BY <2>1, <2>3, <3>3, <4>2, HeldStays
        DEF ReadInWindow, TypeOK, ServerTypeOK
      <4> QED
        BY <4>1, <4>2
    <3>4. ReadInWindow'
      BY <3>3 DEF ReadInWindow
    <3> QED
      BY <1>1, <3>2, <3>4
  <2> QED
    BY <1>3, <2>2, <2>3 DEF Lookup, RetryableCodes
\* The decision: an accepted registration authorizes now, so it did in hand.
<1>4. ASSUME NEW c \in Conns, Decide(c)
      PROVE  GrantInv'
  <2>1. Watch /\ now' = now
    BY <1>4 DEF Decide, OnlyServer
  <2>2. CASE Confirm(reg[c], now, Purpose(req[c])) = "ok" /\ Proceed(c, "act")
    <3>1. reg[c] \in Registration /\ reg[c].own
      BY <1>4, RowAssumption DEF Decide, TypeOK, ServerTypeOK, ReadInWindow
    <3>2. held[c]
      BY <1>2, <1>4, <2>2, <3>1, ConfirmSound, PurposeType
      DEF Decide, ReadInWindow
    <3>3. ASSUME NEW d \in Conns, Granted(d)'
          PROVE  held'[d]
      <4>1. pc'[d] # "free"
        BY <3>3 DEF Granted
      <4>2. held[d]
        BY <2>2, <3>2, <3>3
        DEF Proceed, Granted, GrantedUnderAuthority, TypeOK, ServerTypeOK
      <4> QED
        BY <2>1, <4>1, <4>2, HeldStays
    <3>4. ASSUME NEW d \in Conns, pc'[d] = "decide"
          PROVE  /\ reg'[d].own
                 /\ Authorized(reg'[d], now', Purpose(req'[d])) => held'[d]
      BY <2>1, <2>2, <3>4, HeldStays
      DEF Proceed, ReadInWindow, TypeOK, ServerTypeOK
    <3> QED
      BY <1>1, <3>3, <3>4 DEF GrantedUnderAuthority, ReadInWindow
  <2>3. CASE \E outcome : Reply(c, ScopeError(outcome), NoBytes)
    <3>1. \A outcome : ScopeError(outcome) \notin GrantCodes
      BY DEF ScopeError, GrantCodes
    <3> QED
      BY <1>1, <1>2, <2>1, <2>3, <3>1, ReplyCalm
  <2> QED
    BY <1>4, <2>2, <2>3 DEF Decide
\* Before the decision only refusals are answered.
<1>5. ASSUME NEW c \in Conns,
             \/ Accept(c) \/ GuardRefuses(c) \/ GuardPasses(c) \/ Dispatch(c)
             \/ LookupFails(c) \/ Close(c) \/ ReadArtifact(c)
      PROVE  GrantInv'
  <2>1. Watch /\ now' >= now
    BY <1>2, <1>5
    DEF Accept, GuardRefuses, GuardPasses, Dispatch, LookupFails, Close,
        ReadArtifact, OnlyServer
  <2>2. CASE \E code : Reply(c, code, NoBytes) /\ code \notin GrantCodes
    BY <1>1, <2>1, <2>2, ReplyCalm
  <2>3. CASE \/ Accept(c) \/ GuardPasses(c) \/ Proceed(c, "lookup") \/ Close(c)
             \/ ReadArtifact(c)
    <3>1. \A d \in Conns : Granted(d)' => Granted(d)
      BY <1>5, <2>3
      DEF Accept, GuardPasses, Proceed, Close, ReadArtifact, Acting, Granted,
          TypeOK, ServerTypeOK
    <3>2. \A d \in Conns : pc'[d] = "decide" =>
            pc[d] = "decide" /\ reg'[d] = reg[d] /\ req'[d] = req[d]
      BY <1>5, <2>3
      DEF Accept, GuardPasses, Proceed, Close, ReadArtifact, TypeOK,
          ServerTypeOK
    <3> QED
      BY <1>1, <2>1, <3>1, <3>2, CalmStep
  <2> QED
    BY <1>5, <2>2, <2>3, ScreenedRefuses
    DEF GuardRefuses, Dispatch, LookupFails, GrantCodes, Refusals
\* After it, whatever is answered is answered to a granted request.
<1>6. ASSUME NEW c \in Conns,
             \/ ServeScope(c) \/ ReadInput(c) \/ StageInput(c) \/ Download(c)
             \/ LoadFails(c) \/ Progress(c) \/ Upload(c) \/ Unavailable(c)
             \/ PriorStage(c)
             \/ AcceptedStage(c) \/ CallFails(c) \/ SubmitAccepted(c)
             \/ SubmitRefused(c) \/ SubmitAnswerLost(c) \/ SubmitTimesOut(c)
      PROVE  GrantInv'
  <2>1. Watch /\ now' = now /\ now' >= now
    BY <1>2, <1>6
    DEF ServeScope, ReadInput, StageInput, Download, LoadFails, Progress, Upload,
        Unavailable,
        PriorStage, AcceptedStage, CallFails, SubmitAccepted, SubmitRefused,
        SubmitAnswerLost, SubmitTimesOut, ActionFails, OnlyServer
  <2>2. Granted(c)
    BY <1>6
    DEF ServeScope, ReadInput, StageInput, Download, LoadFails, Progress, Upload,
        Unavailable,
        PriorStage, AcceptedStage, CallFails, SubmitAccepted, SubmitRefused,
        SubmitAnswerLost, SubmitTimesOut, Acting, Granted
  <2>3. CASE \E code, body : Reply(c, code, body)
    BY <1>1, <2>1, <2>2, <2>3, ReplyCalm
  <2>4. CASE \E n, b : StageOrReject(c, n, b)
    BY <1>1, <2>1, <2>2, <2>4, StageCalm
  <2> QED
    BY <1>6, <2>3, <2>4
    DEF ServeScope, ReadInput, StageInput, Download, LoadFails, Progress, Upload,
        Unavailable,
        PriorStage, AcceptedStage, CallFails, SubmitAccepted, SubmitRefused,
        SubmitAnswerLost, SubmitTimesOut, ActionFails
\* Control and the clock.
<1>7. CASE LateSubmit \/ ControlMoves \/ Tick
  <2>1. Watch /\ now' >= now /\ UNCHANGED serverVars
    BY <1>2, <1>7 DEF LateSubmit, ControlMoves, Tick
  <2> QED
    BY <1>1, <2>1, CalmStep DEF serverVars, Granted
\* Nothing is granted to a connection a restart broke.
<1>8. CASE Restart
  <2>1. \A c \in Conns : pc'[c] = "free"
    BY <1>8 DEF Restart
  <2> QED
    BY <1>1, <2>1 DEF ReadInWindow, GrantedUnderAuthority, Granted
<1>9. CASE UNCHANGED vars
  BY <1>1, <1>9
  DEF vars, serverVars, ReadInWindow, GrantedUnderAuthority, Granted
<1> QED
  BY <1>3, <1>4, <1>5, <1>6, <1>7, <1>8, <1>9 DEF Next, Serve

LEMMA GrantInit == Init => GrantInv
<1> SUFFICES ASSUME Init
             PROVE  GrantInv
  OBVIOUS
<1>1. \A c \in Conns : pc[c] = "free"
  BY DEF Init
<1> QED
  BY <1>1, TypeInit DEF GrantInv, ReadInWindow, GrantedUnderAuthority, Granted

\* No request is granted unless authority held for its purpose at one instant
\* since it arrived, for any number of connections and any behaviour of
\* Control and the clock.
THEOREM GrantsAreAuthorized == Spec => []GrantedUnderAuthority
<1>1. GrantInv /\ [Next]_vars => GrantInv'
  BY GrantStep
<1>2. GrantInv => GrantedUnderAuthority
  BY DEF GrantInv
<1> QED
  BY <1>1, <1>2, GrantInit, PTL DEF Spec

-----------------------------------------------------------------------------
(***************************************************************************)
(* Results.  Control accepts one result and every later answer is read from *)
(* it; the strengthening is that a result was told only if it is Control's. *)
(***************************************************************************)
ResultInv == TypeOK /\ ResultsAgree

LEMMA AcceptsAgree ==
  ASSUME ResultInv, NEW b \in Bytes, Accepts(b)
  PROVE  stage' = b /\ \A t \in told : t = stage'
BY InputAssumption
DEF ResultInv, TypeOK, HistoryTypeOK, ResultsAgree, Accepts

LEMMA ResultStep ==
  ASSUME ResultInv, [Next]_vars
  PROVE  ResultInv'
<1> USE DEF ResultInv
<1>1. TypeOK'
  BY TypeStep
<1>2. CASE told' = told /\ stage' = stage
  BY <1>1, <1>2 DEF ResultsAgree
<1>3. ASSUME NEW c \in Conns, SubmitAccepted(c) \/ SubmitAnswerLost(c)
      PROVE  ResultInv'
  <2>1. req[c].bytes \in Bytes
    BY <1>3, OpenRequest DEF SubmitAccepted, SubmitAnswerLost, Acting
  <2> QED
    BY <1>1, <1>3, <2>1, AcceptsAgree
    DEF SubmitAccepted, SubmitAnswerLost, ResultsAgree
<1>4. CASE LateSubmit
  BY <1>1, <1>4, AcceptsAgree DEF LateSubmit, ResultsAgree, TypeOK, WorldTypeOK
<1>5. ASSUME NEW c \in Conns, AcceptedStage(c)
      PROVE  ResultInv'
  BY <1>1, <1>5 DEF AcceptedStage, ResultsAgree, controlVars
<1>6. ASSUME NEW c \in Conns,
             \/ Accept(c) \/ GuardRefuses(c) \/ GuardPasses(c) \/ Dispatch(c)
             \/ Lookup(c) \/ LookupFails(c) \/ Decide(c) \/ ServeScope(c)
             \/ ReadInput(c) \/ StageInput(c) \/ ReadArtifact(c)
             \/ Download(c) \/ LoadFails(c) \/ Progress(c) \/ Upload(c)
             \/ Unavailable(c) \/ PriorStage(c)
             \/ CallFails(c) \/ SubmitRefused(c) \/ SubmitTimesOut(c)
             \/ Close(c)
      PROVE  told' = told /\ stage' = stage
  BY <1>6
  DEF Accept, GuardRefuses, GuardPasses, Dispatch, Lookup, LookupFails, Decide,
      ServeScope, ReadInput, StageInput, ReadArtifact, Download, LoadFails,
      Progress, Upload, Unavailable, PriorStage, CallFails, SubmitRefused,
      SubmitTimesOut, Close,
      ActionFails, OnlyServer, controlVars
<1>7. CASE Restart \/ ControlMoves \/ Tick \/ UNCHANGED vars
  BY <1>2, <1>7 DEF Restart, ControlMoves, Tick, vars, controlVars
<1> QED
  BY <1>2, <1>3, <1>4, <1>5, <1>6, <1>7 DEF Next, Serve

\* Whatever was ever answered as accepted is the attempt's one result, also
\* after lost answers, late calls and submissions of another result.
THEOREM OneResult == Spec => []ResultsAgree
<1>1. Init => ResultInv
  BY TypeInit DEF Init, ResultInv, ResultsAgree
<1>2. ResultInv /\ [Next]_vars => ResultInv'
  BY ResultStep
<1>3. ResultInv => ResultsAgree
  BY DEF ResultInv
<1> QED
  BY <1>1, <1>2, <1>3, PTL DEF Spec

-----------------------------------------------------------------------------
(***************************************************************************)
(* Inputs.  What is served was staged, and whatever is staged has its       *)
(* declared digest, by either way in.                                       *)
(***************************************************************************)
StagedDeclared ==
  \A n \in Names :
    inputs[n] # NoBytes => Permitted(n, inputs[n])

\* Only a load downloads.
LoadsDownload == \A c \in Conns : pc[c] = "download" => req[c].route = "load"

InputInv == TypeOK /\ StagedDeclared /\ LoadsDownload /\ ServedAsDeclared

\* An answer that is no served input keeps the invariant.
LEMMA ReplyServes ==
  ASSUME InputInv, TypeOK', NEW c \in Conns, NEW code, NEW body,
         Reply(c, code, body), StagedDeclared',
         req[c].route = "read" /\ code = "OK" =>
           body \in Bytes /\ Permitted(req[c].name, body)
  PROVE  InputInv'
<1>1. ASSUME NEW d \in Conns, pc'[d] = "done", req'[d].route = "read",
             ans'[d].code = "OK"
      PROVE  ans'[d].body \in Bytes /\ Permitted(req'[d].name, ans'[d].body)
  <2>1. CASE d = c
    BY <1>1, <2>1 DEF Reply, InputInv, TypeOK, ServerTypeOK
  <2>2. CASE d # c
    BY <1>1, <2>2
    DEF Reply, InputInv, TypeOK, ServerTypeOK, ServedAsDeclared, Permitted
  <2> QED
    BY <2>1, <2>2
<1>2. LoadsDownload'
  BY DEF Reply, InputInv, TypeOK, ServerTypeOK, LoadsDownload
<1> QED
  BY <1>1, <1>2 DEF InputInv, ServedAsDeclared, Permitted

LEMMA StageServes ==
  ASSUME InputInv, TypeOK', NEW c \in Conns, NEW n \in Names, NEW b \in Bytes,
         StageOrReject(c, n, b), req[c].route # "read"
  PROVE  InputInv'
<1>1. PICK code : Reply(c, code, NoBytes)
  BY DEF StageOrReject
<1>2. StagedDeclared'
  BY DEF StageOrReject, StagedDeclared, InputInv, TypeOK, WorldTypeOK, Permitted
<1> QED
  BY <1>1, <1>2, ReplyServes

LEMMA InputStep ==
  ASSUME InputInv, [Next]_vars
  PROVE  InputInv'
<1> USE DEF InputInv
<1>1. TypeOK'
  BY TypeStep
<1>2. ASSUME NEW c \in Conns, StageInput(c)
      PROVE  InputInv'
  BY <1>1, <1>2, OpenRequest, StageServes DEF StageInput, Acting
<1>3. ASSUME NEW c \in Conns, Download(c)
      PROVE  InputInv'
  <2>1. CASE inputs' = inputs /\ Reply(c, "ACTION_REFUSED", NoBytes)
    BY <1>1, <1>3, <2>1, ReplyServes DEF StagedDeclared, Permitted
  <2>2. CASE \E b \in Bytes : StageOrReject(c, req[c].name, b)
    BY <1>1, <1>3, <2>2, OpenRequest, StageServes DEF Download, LoadsDownload
  <2> QED
    BY <1>3, <2>1, <2>2 DEF Download
<1>4. ASSUME NEW c \in Conns, ReadInput(c)
      PROVE  InputInv'
  <2>1. StagedDeclared'
    BY <1>4 DEF ReadInput, OnlyServer, StagedDeclared, Permitted
  <2>2. req[c].name \in Names
    BY <1>4, OpenRequest DEF ReadInput, Acting
  <2>3. CASE inputs[req[c].name] = NoBytes
    BY <1>1, <1>4, <2>1, <2>3, ReplyServes DEF ReadInput
  <2>4. CASE inputs[req[c].name] # NoBytes
    BY <1>1, <1>4, <2>1, <2>2, <2>4, ReplyServes
    DEF ReadInput, StagedDeclared, TypeOK, WorldTypeOK
  <2> QED
    BY <2>3, <2>4
\* Every other answer is to another route or carries another code.
<1>5. ASSUME NEW c \in Conns,
             \/ GuardRefuses(c) \/ LookupFails(c) \/ ServeScope(c)
             \/ LoadFails(c) \/ Progress(c) \/ Upload(c) \/ Unavailable(c)
             \/ PriorStage(c)
             \/ AcceptedStage(c) \/ CallFails(c) \/ SubmitAccepted(c)
             \/ SubmitRefused(c) \/ SubmitAnswerLost(c) \/ SubmitTimesOut(c)
      PROVE  InputInv'
  <2>1. StagedDeclared'
    BY <1>5
    DEF GuardRefuses, LookupFails, ServeScope, LoadFails, Progress, Upload,
        Unavailable, PriorStage,
        AcceptedStage, CallFails, SubmitAccepted, SubmitRefused,
        SubmitAnswerLost, SubmitTimesOut, ActionFails, OnlyServer,
        StagedDeclared, Permitted
  <2>2. \E code, body : /\ Reply(c, code, body)
                        /\ ~(req[c].route = "read" /\ code = "OK")
    BY <1>5
    DEF GuardRefuses, LookupFails, ServeScope, LoadFails, Progress, Upload,
        Unavailable, PriorStage,
        AcceptedStage, CallFails, SubmitAccepted, SubmitRefused,
        SubmitAnswerLost, SubmitTimesOut, ActionFails, Acting
  <2> QED
    BY <1>1, <2>1, <2>2, ReplyServes
<1>6. ASSUME NEW c \in Conns, Dispatch(c) \/ Lookup(c) \/ Decide(c)
      PROVE  InputInv'
  <2>1. StagedDeclared'
    BY <1>6
    DEF Dispatch, Lookup, Decide, OnlyServer, StagedDeclared, Permitted
  <2>2. CASE \E code : Reply(c, code, NoBytes) /\ code # "OK"
    BY <1>1, <2>1, <2>2, ReplyServes
  <2>3. CASE \/ Proceed(c, "lookup") \/ Proceed(c, "act")
             \/ /\ reg' = [reg EXCEPT ![c] = row]
                /\ pc' = [pc EXCEPT ![c] = "decide"]
                /\ UNCHANGED <<req, proof, ans>>
    BY <1>1, <2>1, <2>3
    DEF Proceed, TypeOK, ServerTypeOK, LoadsDownload, ServedAsDeclared
  <2>4. \A outcome : ScopeError(outcome) # "OK"
    BY DEF ScopeError
  <2> QED
    BY <1>6, <2>2, <2>3, <2>4 DEF Dispatch, Lookup, Decide
<1>7. ASSUME NEW c \in Conns,
             Accept(c) \/ GuardPasses(c) \/ ReadArtifact(c) \/ Close(c)
      PROVE  InputInv'
  <2>1. StagedDeclared'
    BY <1>7
    DEF Accept, GuardPasses, ReadArtifact, Close, OnlyServer, StagedDeclared,
        Permitted
  <2>2. LoadsDownload'
    BY <1>7
    DEF Accept, GuardPasses, ReadArtifact, Close, Proceed, Acting, TypeOK,
        ServerTypeOK, LoadsDownload
  <2>3. ServedAsDeclared'
    BY <1>7
    DEF Accept, GuardPasses, ReadArtifact, Close, Proceed, Acting, TypeOK,
        ServerTypeOK, ServedAsDeclared
  <2> QED
    BY <1>1, <2>1, <2>2, <2>3
<1>8. CASE LateSubmit \/ ControlMoves \/ Tick \/ UNCHANGED vars
  BY <1>1, <1>8
  DEF LateSubmit, ControlMoves, Tick, vars, serverVars, StagedDeclared,
      LoadsDownload, ServedAsDeclared, Permitted
<1>9. CASE Restart
  BY <1>1, <1>9
  DEF Restart, StagedDeclared, LoadsDownload, ServedAsDeclared, Permitted
<1> QED
  BY <1>2, <1>3, <1>4, <1>5, <1>6, <1>7, <1>8, <1>9 DEF Next, Serve

\* Nothing but the declared content of a declared input is ever served,
\* whatever was staged, however the store answers a load, and whatever other
\* connections do between the staging and the read.
THEOREM ServesDeclared == Spec => []ServedAsDeclared
<1>1. Init => InputInv
  BY TypeInit
  DEF Init, InputInv, StagedDeclared, LoadsDownload, ServedAsDeclared
<1>2. InputInv /\ [Next]_vars => InputInv'
  BY InputStep
<1>3. InputInv => ServedAsDeclared
  BY DEF InputInv
<1> QED
  BY <1>1, <1>2, <1>3, PTL DEF Spec
-----------------------------------------------------------------------------
(***************************************************************************)
(* Peers.  The proof on an answer is set by the guard and read by the       *)
(* answer much later; what is kept meanwhile is that past the guard the     *)
(* proof stands and the peer is the socket's, and past the dispatch that    *)
(* the route is one of the socket's set.                                    *)
(***************************************************************************)
IsPeer(r) == r.uid = r.socket /\ r.token = r.socket /\ r.nonce

Dispatched == {"lookup", "decide", "act", "download"}

PeerState(c) ==
  /\ pc[c] \in {"free", "guard"} => ~proof[c]
  /\ pc[c] \in {"route"} \cup Dispatched => proof[c] /\ IsPeer(req[c])
  /\ pc[c] \in Dispatched => req[c].route \in RoutesOf(req[c].socket)
  /\ pc[c] = "done" => (ans[c].proof <=> IsPeer(req[c]))

PeerInv == TypeOK /\ (\A c \in Conns : PeerState(c)) /\ LoadsDownload

\* Only an answer of the guard comes without its proof.
LEMMA ReplyPeer ==
  ASSUME PeerInv, NEW c \in Conns, NEW code, NEW body, Reply(c, code, body),
         \/ pc[c] \in {"route"} \cup Dispatched
         \/ pc[c] = "guard" /\ ~IsPeer(req[c])
  PROVE  (\A d \in Conns : PeerState(d)') /\ LoadsDownload'
<1> USE DEF PeerInv
<1>1. /\ ~proof[c] <=> pc[c] = "guard"
      /\ IsPeer(req[c]) <=> pc[c] # "guard"
  BY DEF PeerState, Dispatched
<1>2. /\ pc'[c] = "done" /\ ans'[c].proof = proof[c] /\ req'[c] = req[c]
      /\ proof[c] \in BOOLEAN
  BY DEF Reply, TypeOK, ServerTypeOK
<1>3. PeerState(c)'
  BY <1>1, <1>2 DEF PeerState, IsPeer, Dispatched
<1>4. ASSUME NEW d \in Conns, d # c
      PROVE  /\ pc'[d] = pc[d] /\ ans'[d] = ans[d] /\ req'[d] = req[d]
             /\ proof'[d] = proof[d]
  BY <1>4 DEF Reply, TypeOK, ServerTypeOK
<1>5. \A d \in Conns : d # c => PeerState(d)'
  BY <1>4 DEF PeerState, IsPeer
<1>6. LoadsDownload'
  BY DEF Reply, TypeOK, ServerTypeOK, LoadsDownload
<1> QED
  BY <1>3, <1>5, <1>6

LEMMA PeerStep ==
  ASSUME PeerInv, [Next]_vars
  PROVE  PeerInv'
<1> USE DEF PeerInv
<1>1. TypeOK'
  BY TypeStep
<1>2. ASSUME NEW c \in Conns, GuardRefuses(c)
      PROVE  PeerInv'
  <2>1. pc[c] = "guard" /\ ~IsPeer(req[c])
    BY <1>2 DEF GuardRefuses, IsPeer
  <2> QED
    BY <1>1, <1>2, <2>1, ReplyPeer DEF GuardRefuses
\* Past the guard every answer carries the proof.
<1>3. ASSUME NEW c \in Conns, pc[c] \in {"route"} \cup Dispatched,
             \/ \E code, body : Reply(c, code, body)
             \/ \E n, b : StageOrReject(c, n, b)
      PROVE  PeerInv'
  BY <1>1, <1>3, ReplyPeer DEF StageOrReject
<1>4. ASSUME NEW c \in Conns,
             \/ LookupFails(c) \/ ServeScope(c) \/ ReadInput(c) \/ StageInput(c)
             \/ Download(c) \/ LoadFails(c) \/ Progress(c) \/ Upload(c)
             \/ Unavailable(c) \/ PriorStage(c)
             \/ AcceptedStage(c) \/ CallFails(c) \/ SubmitAccepted(c)
             \/ SubmitRefused(c) \/ SubmitAnswerLost(c) \/ SubmitTimesOut(c)
      PROVE  PeerInv'
  <2>1. pc[c] \in Dispatched
    BY <1>4
    DEF LookupFails, ServeScope, ReadInput, StageInput, Download, LoadFails,
        Progress, Upload, Unavailable, PriorStage, AcceptedStage, CallFails,
        SubmitAccepted,
        SubmitRefused, SubmitAnswerLost, SubmitTimesOut, Acting, Dispatched
  <2>2. \/ \E code, body : Reply(c, code, body)
        \/ \E n, b : StageOrReject(c, n, b)
    BY <1>4
    DEF LookupFails, ServeScope, ReadInput, StageInput, Download, LoadFails,
        Progress, Upload, Unavailable, PriorStage, AcceptedStage, CallFails,
        SubmitAccepted,
        SubmitRefused, SubmitAnswerLost, SubmitTimesOut, ActionFails
  <2> QED
    BY <1>3, <2>1, <2>2
\* The steps along the way keep the request and the proof.
<1>5. ASSUME NEW c \in Conns, Dispatch(c) \/ Lookup(c) \/ Decide(c)
      PROVE  PeerInv'
  <2>1. pc[c] \in {"route"} \cup Dispatched
    BY <1>5 DEF Dispatch, Lookup, Decide, Dispatched
  <2>2. CASE \E code, body : Reply(c, code, body)
    BY <1>3, <2>1, <2>2
  <2>3. CASE \E to \in {"lookup", "decide", "act"} :
               /\ pc' = [pc EXCEPT ![c] = to]
               /\ UNCHANGED <<req, proof, ans>>
               /\ req[c].route \in RoutesOf(req[c].socket)
    <3>1. \A d \in Conns : PeerState(d)'
      BY <2>1, <2>3 DEF PeerState, Dispatched, IsPeer, TypeOK, ServerTypeOK
    <3>2. LoadsDownload'
      BY <2>3 DEF LoadsDownload, TypeOK, ServerTypeOK
    <3> QED
      BY <1>1, <3>1, <3>2
  <2>4. \/ \E code, body : Reply(c, code, body)
        \/ \E to \in {"lookup", "decide", "act"} :
             /\ pc' = [pc EXCEPT ![c] = to]
             /\ UNCHANGED <<req, proof, ans>>
             /\ req[c].route \in RoutesOf(req[c].socket)
    <3>1. CASE Dispatch(c)
      BY <3>1 DEF Dispatch, Proceed
    <3>2. CASE Lookup(c)
      BY <3>2 DEF Lookup, PeerState, Dispatched
    <3>3. CASE Decide(c)
      BY <3>3 DEF Decide, Proceed, PeerState, Dispatched
    <3> QED
      BY <1>5, <3>1, <3>2, <3>3
  <2> QED
    BY <2>2, <2>3, <2>4
<1>6. ASSUME NEW c \in Conns,
             Accept(c) \/ GuardPasses(c) \/ ReadArtifact(c) \/ Close(c)
      PROVE  PeerInv'
  <2>1. \A d \in Conns : PeerState(d)'
    <3>1. CASE Accept(c)
      BY <3>1 DEF Accept, PeerState, Dispatched, IsPeer, TypeOK, ServerTypeOK
    <3>2. CASE GuardPasses(c)
      BY <3>2 DEF GuardPasses, PeerState, Dispatched, IsPeer, TypeOK, ServerTypeOK
    <3>3. CASE ReadArtifact(c)
      BY <3>3
      DEF ReadArtifact, Acting, Proceed, PeerState, Dispatched, IsPeer, TypeOK,
          ServerTypeOK
    <3>4. CASE Close(c)
      BY <3>4 DEF Close, PeerState, Dispatched, IsPeer, TypeOK, ServerTypeOK
    <3> QED
      BY <1>6, <3>1, <3>2, <3>3, <3>4
  <2>2. LoadsDownload'
    BY <1>6
    DEF Accept, GuardPasses, ReadArtifact, Close, Proceed, Acting, TypeOK,
        ServerTypeOK, LoadsDownload
  <2> QED
    BY <1>1, <2>1, <2>2
<1>7. CASE LateSubmit \/ ControlMoves \/ Tick \/ UNCHANGED vars
  <2>1. UNCHANGED serverVars
    BY <1>7 DEF LateSubmit, ControlMoves, Tick, vars
  <2> QED
    BY <1>1, <2>1 DEF serverVars, PeerState, LoadsDownload
<1>8. CASE Restart
  BY <1>1, <1>8 DEF Restart, PeerState, Dispatched, LoadsDownload
<1> QED
  BY <1>2, <1>4, <1>5, <1>6, <1>7, <1>8 DEF Next, Serve

LEMMA PeerInit == Init => PeerInv
BY TypeInit DEF Init, PeerInv, PeerState, Dispatched, LoadsDownload

\* The sidecar's proof stands on exactly the answers to the socket's own peer
\* with a nonce and the socket's token, however requests overlap and whatever
\* breaks meanwhile.
THEOREM ProofsNamePeers == Spec => []ProofNamesPeer
<1>1. PeerInv /\ [Next]_vars => PeerInv'
  BY PeerStep
<1>2. PeerInv => ProofNamesPeer
  BY DEF PeerInv, PeerState, ProofNamesPeer, IsPeer
<1> QED
  BY <1>1, <1>2, PeerInit, PTL DEF Spec
-----------------------------------------------------------------------------
(***************************************************************************)
(* What a step may do to what requests share.                               *)
(***************************************************************************)

\* The steps that neither stage, nor submit, nor tell of a result.
LEMMA QuietSteps ==
  ASSUME NEW c \in Conns,
         \/ Accept(c) \/ GuardRefuses(c) \/ GuardPasses(c) \/ Dispatch(c)
         \/ Lookup(c) \/ LookupFails(c) \/ Decide(c) \/ ServeScope(c)
         \/ ReadInput(c) \/ ReadArtifact(c) \/ LoadFails(c) \/ Progress(c)
         \/ Upload(c) \/ Unavailable(c)
         \/ PriorStage(c) \/ CallFails(c) \/ SubmitRefused(c) \/ Close(c)
  PROVE  UNCHANGED <<inputs, late, told, stage>>
BY DEF Accept, GuardRefuses, GuardPasses, Dispatch, Lookup, LookupFails,
       Decide, ServeScope, ReadInput, ReadArtifact, LoadFails, Progress, Upload,
       Unavailable,
       PriorStage, CallFails, SubmitRefused, Close, ActionFails, OnlyServer,
       controlVars

LEMMA WorldSteps ==
  ASSUME LateSubmit \/ ControlMoves \/ Tick \/ UNCHANGED vars
  PROVE  UNCHANGED <<inputs, told>> /\ late' \subseteq late /\ stage' \in {stage} \cup late
BY DEF LateSubmit, Accepts, ControlMoves, Tick, vars, controlVars

\* A staging replaces content only by content of the same declared digest.
LEMMA StageKeeps ==
  ASSUME TypeOK, StagedDeclared, NEW c \in Conns, NEW n \in Names,
         NEW b \in Bytes, StageOrReject(c, n, b)
  PROVE  \A m \in Names :
           inputs[m] # NoBytes =>
             inputs'[m] # NoBytes /\ DigestOf[inputs'[m]] = DigestOf[inputs[m]]
BY InputAssumption
DEF StageOrReject, StagedDeclared, Permitted, TypeOK, WorldTypeOK

\* Staged content stays with its digest while the process lives, whatever else
\* is staged, loaded or rejected.
THEOREM StagedInputsStay == Spec => StagedStays
<1> DEFINE Keeps ==
      (\E c \in Conns : pc'[c] # "free") =>
        \A n \in Names :
          inputs[n] # NoBytes =>
            inputs'[n] # NoBytes /\ DigestOf[inputs'[n]] = DigestOf[inputs[n]]
<1>1. Init => InputInv
  BY TypeInit
  DEF Init, InputInv, StagedDeclared, LoadsDownload, ServedAsDeclared
<1>2. InputInv /\ [Next]_vars => InputInv'
  BY InputStep
<1>3. ASSUME InputInv, [Next]_vars
      PROVE  Keeps
  <2>1. CASE UNCHANGED inputs
    BY <2>1
  <2>2. ASSUME NEW c \in Conns, NEW n \in Names, NEW b \in Bytes,
               StageOrReject(c, n, b)
        PROVE  Keeps
    BY <1>3, <2>2, StageKeeps DEF InputInv
  <2>3. ASSUME NEW c \in Conns, StageInput(c) \/ Download(c)
        PROVE  Keeps
    <3>1. req[c].name \in Names /\ req[c].bytes \in Bytes
      BY <1>3, <2>3, OpenRequest DEF StageInput, Download, Acting, InputInv
    <3> QED
      BY <2>1, <2>2, <2>3, <3>1 DEF StageInput, Download
  <2>4. ASSUME NEW c \in Conns,
               \/ AcceptedStage(c) \/ SubmitAccepted(c)
               \/ SubmitAnswerLost(c) \/ SubmitTimesOut(c)
        PROVE  Keeps
    BY <2>1, <2>4
    DEF AcceptedStage, SubmitAccepted, SubmitAnswerLost, SubmitTimesOut
  <2>5. CASE Restart
    BY <2>5 DEF Restart
  <2> QED
    BY <1>3, <2>1, <2>3, <2>4, <2>5, QuietSteps, WorldSteps DEF Next, Serve
<1> QED
  BY <1>1, <1>2, <1>3, PTL DEF Spec, StagedStays

\* A step acts for the trusted peer.
ActedByTrusted ==
  \E c \in Conns :
    /\ pc[c] \in {"act", "download"} /\ pc'[c] \in {"done", "free"}
    /\ req[c].socket = "trusted"
    /\ req[c].uid = "trusted" /\ req[c].token = "trusted"
    /\ held[c]

\* Whoever acts on a route other than a read is the trusted socket's peer, with
\* authority.
LEMMA ActorIsTrusted ==
  ASSUME PeerInv, NEW c \in Conns, pc[c] \in {"act", "download"},
         GrantedUnderAuthority, req[c].route # "read"
  PROVE  /\ req[c].socket = "trusted" /\ req[c].uid = "trusted"
         /\ req[c].token = "trusted" /\ held[c]
<1>1. IsPeer(req[c]) /\ req[c].route \in RoutesOf(req[c].socket)
  BY DEF PeerInv, PeerState, Dispatched
<1> QED
  BY <1>1 DEF IsPeer, RoutesOf, CandidateRoutes, GrantedUnderAuthority, Granted

\* Only the trusted peer stages, submits and is told of results, and Control
\* accepts none but what it submitted, each time under authority, whatever the
\* candidate asks on either socket.
THEOREM CandidateOnlyReads == Spec => OnlyTrustedActs
<1> DEFINE Acts ==
      \/ \E n \in Names : inputs'[n] \notin {NoBytes, inputs[n]}
      \/ ~(late' \subseteq late)
      \/ told' # told
      \/ stage' \notin {stage} \cup late
<1>1. PeerInv /\ [Next]_vars => PeerInv'
  BY PeerStep
<1>2. ASSUME PeerInv, GrantedUnderAuthority, [Next]_vars, Acts
      PROVE  ActedByTrusted
  <2>1. ASSUME NEW c \in Conns,
               \/ StageInput(c) \/ AcceptedStage(c) \/ SubmitAccepted(c)
               \/ SubmitAnswerLost(c) \/ SubmitTimesOut(c) \/ Download(c)
        PROVE  ActedByTrusted
    <3>1. pc[c] \in {"act", "download"} /\ req[c].route # "read"
      BY <1>2, <2>1
      DEF StageInput, AcceptedStage, SubmitAccepted, SubmitAnswerLost,
          SubmitTimesOut, Download, Acting, PeerInv, LoadsDownload
    <3>2. \E code, body : Reply(c, code, body)
      BY <2>1
      DEF StageInput, AcceptedStage, SubmitAccepted, SubmitAnswerLost,
          SubmitTimesOut, Download, StageOrReject
    <3>3. pc'[c] = "done"
      BY <1>2, <3>2 DEF Reply, PeerInv, TypeOK, ServerTypeOK
    <3> QED
      BY <1>2, <3>1, <3>3, ActorIsTrusted DEF ActedByTrusted
  \* A restart may leave the submissions under way to Control.
  <2>2. CASE Restart
    <3>1. ~(late' \subseteq late)
      BY <1>2, <2>2 DEF Restart
    <3>2. PICK c \in Conns : Acting(c, "submit")
      BY <2>2, <3>1 DEF Restart
    <3>3. pc[c] = "act" /\ req[c].route # "read" /\ pc'[c] = "free"
      BY <2>2, <3>2 DEF Restart, Acting
    <3> QED
      BY <1>2, <3>3, ActorIsTrusted DEF ActedByTrusted
  <2>3. CASE /\ UNCHANGED <<inputs, told>> /\ late' \subseteq late
             /\ stage' \in {stage} \cup late
    BY <1>2, <2>3
  <2> QED
    BY <1>2, <2>1, <2>2, <2>3, QuietSteps, WorldSteps DEF Next, Serve
<1> QED
  BY <1>1, <1>2, PeerInit, GrantsAreAuthorized, PTL
  DEF Spec, OnlyTrustedActs, ActedByTrusted
=============================================================================
