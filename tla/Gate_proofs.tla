------------------------------ MODULE Gate_proofs ------------------------------
(***************************************************************************)
(* Refusals, and the refinement of AuthorityGate by Access.                 *)
(***************************************************************************)
EXTENDS Access_proofs

-----------------------------------------------------------------------------
(***************************************************************************)
(* The decision, from the other side.                                       *)
(***************************************************************************)

\* Registration.Confirm refuses an authorized registration for its time only.
LEMMA ConfirmComplete ==
  ASSUME NEW r \in Registration, NEW t \in Nat, NEW p \in Purposes,
         Authorized(r, t, p)
  PROVE  Confirm(r, t, p) = "ok"
<1>1. Owner(r) /\ r.operation # NoOperation /\ r.operation.epoch = r.epoch
      /\ OperationAllows(r.operation, p) /\ BeforeDeadlines(r, t)
  BY DEF Authorized, Owner
<1>2. r.operation \in OperationView
  BY <1>1 DEF Registration
<1>3. StateAllows(r.state, p)
  BY DEF Authorized, StateAllows, Purposes
<1>4. ~FenceRefuses(r.operation, p)
  BY <1>1
  DEF FenceRefuses, Fenced, Controlled, OperationAllows, Terminal, Purposes
<1>5. ~DeadlinePassed(r, t)
  BY <1>1, <1>2, DeadlineAssumption
  DEF DeadlinePassed, BeforeDeadlines, OperationView
<1> QED
  BY <1>1, <1>3, <1>4, <1>5 DEF Confirm, Owner

\* Two registrations of the same deadlines: what is authorized once is
\* authorized whenever the other is within its deadlines.
SameDeadlines(r, s) ==
  /\ r.deadline = s.deadline
  /\ r.operation # NoOperation /\ s.operation # NoOperation
  /\ r.operation.deadline = s.operation.deadline

LEMMA AuthorizedAgain ==
  ASSUME NEW r \in Registration, NEW s \in Registration, NEW t \in Nat,
         NEW u \in Nat, NEW p \in Purposes, NEW q \in Purposes,
         SameDeadlines(r, s), Authorized(r, t, p), Authorized(s, u, q)
  PROVE  Authorized(r, u, p)
<1>1. BeforeDeadlines(s, u)
  BY DEF Authorized
<1>2. BeforeDeadlines(r, u)
  BY <1>1 DEF BeforeDeadlines, SameDeadlines
<1> QED
  BY <1>2 DEF Authorized

-----------------------------------------------------------------------------
(***************************************************************************)
(* Refusals.  At the decision the registration in hand may be old and the   *)
(* clock has moved.  As long as the request has not seen authority lacking,  *)
(* the last registration authorizes its purpose now, the one in hand did so *)
(* when it was read, and neither deadline has moved in between: then the    *)
(* decision cannot refuse.                                                  *)
(***************************************************************************)
OpenStates == PcStates \ {"free", "done"}

Current(c) ==
  pc[c] \in OpenStates /\ known # Unregistered /\ ~lost[c] =>
    Authorized(known, now, Purpose(req[c]))

InHand(c) ==
  pc[c] = "decide" =>
    /\ known # Unregistered
    /\ ~lost[c] =>
         /\ SameDeadlines(reg[c], known)
         /\ \E t \in Nat : Authorized(reg[c], t, Purpose(req[c]))

Answered(c) ==
  /\ pc[c] # "done" => ans[c] = NoAnswer
  /\ ans[c].code \in AuthorityCodes => lost[c]

RefuseState(c) == Current(c) /\ InHand(c) /\ Answered(c)

RefuseInv ==
  /\ TypeOK
  /\ row # Unregistered => known = row
  /\ \A c \in Conns : RefuseState(c)

LEMMA LostStays ==
  ASSUME Watch, NEW c \in Conns, lost[c], pc'[c] # "free"
  PROVE  lost'[c]
BY DEF Watch

\* The watch keeps the first part by itself.
LEMMA CurrentStays ==
  ASSUME TypeOK', Watch, NEW c \in Conns
  PROVE  Current(c)'
BY DEF Watch, Open, Current, OpenStates

\* Control never returns to having known nothing of the Pod, and as long as
\* authority lasts the deadlines stay.
KnownStays ==
  known # Unregistered =>
    /\ known' # Unregistered
    /\ \A p, q \in Purposes :
         Authorized(known, now, p) /\ Authorized(known', now', q) =>
           SameDeadlines(known, known')

\* What Control last knew stays or is followed by a row with its operation's
\* deadline.
RowMoves ==
  \/ known' = known
  \/ /\ row' # Unregistered /\ known' = row'
     /\ known # Unregistered => SameDeadline(known, row')

LEMMA RowMovesKeeps ==
  ASSUME TypeOK, TypeOK', RowMoves
  PROVE  KnownStays
<1> SUFFICES ASSUME known # Unregistered
             PROVE  /\ known' # Unregistered
                    /\ \A p, q \in Purposes :
                         Authorized(known, now, p) /\ Authorized(known', now', q) =>
                           SameDeadlines(known, known')
  BY DEF KnownStays
<1>1. known' # Unregistered
  BY DEF RowMoves
<1>2. known \in Rows /\ known' \in Rows
  BY <1>1 DEF TypeOK, HistoryTypeOK
<1>3. ASSUME NEW p \in Purposes, NEW q \in Purposes,
             Authorized(known, now, p), Authorized(known', now', q)
      PROVE  SameDeadlines(known, known')
  <2>1. /\ Owner(known) /\ Owner(known')
        /\ known.operation # NoOperation /\ known'.operation # NoOperation
    BY <1>3 DEF Authorized
  <2>2. known.deadline = known'.deadline
    BY <2>1 DEF RowMoves, SameDeadline, Owner
  <2> QED
    BY <2>1, <2>2 DEF RowMoves, SameDeadline, SameDeadlines
<1> QED
  BY <1>1, <1>3
LEMMA AcceptsMoves ==
  ASSUME RefuseInv, NEW b, Accepts(b), Watch
  PROVE  RowMoves
<1>1. CASE row # Unregistered /\ row' = [row EXCEPT !.state = "RESULT_ACCEPTED"]
  <2>1. row \in Registration /\ row' \in Registration /\ row' # Unregistered
    BY <1>1, RowAssumption DEF RefuseInv, TypeOK, WorldTypeOK
  <2>2. row'.operation = row.operation /\ row'.deadline = row.deadline
    BY <1>1, <2>1 DEF Registration
  <2> QED
    BY <1>1, <2>1, <2>2 DEF RefuseInv, RowMoves, Watch, SameDeadline
<1>2. CASE row' = row
  BY <1>2 DEF RefuseInv, RowMoves, Watch
<1> QED
  BY <1>1, <1>2 DEF Accepts

\* A step that brings no connection to its decision, and answers none that
\* authority ended, keeps the invariant.
LEMMA RefuseCalm ==
  ASSUME RefuseInv, TypeOK', Watch, RowMoves,
         \A c \in Conns : pc'[c] = "decide" =>
           pc[c] = "decide" /\ reg'[c] = reg[c] /\ req'[c] = req[c],
         \A c \in Conns : Answered(c)'
  PROVE  RefuseInv'
<1>1. KnownStays
  BY RowMovesKeeps DEF RefuseInv
<1>2. row' # Unregistered => known' = row'
  BY DEF Watch
<1>3. ASSUME NEW c \in Conns, pc'[c] = "decide"
      PROVE  InHand(c)'
  <2>1. pc[c] = "decide" /\ reg'[c] = reg[c] /\ req'[c] = req[c]
    BY <1>3
  <2>2. known # Unregistered /\ known' # Unregistered
    BY <1>1, <2>1 DEF RefuseInv, RefuseState, InHand, KnownStays
  <2>3. ASSUME ~lost'[c]
        PROVE  /\ SameDeadlines(reg[c], known')
               /\ \E t \in Nat : Authorized(reg[c], t, Purpose(req[c]))
    <3>1. ~lost[c]
      BY <1>3, <2>3, LostStays
    <3>2. /\ SameDeadlines(reg[c], known)
          /\ \E t \in Nat : Authorized(reg[c], t, Purpose(req[c]))
      BY <2>1, <3>1 DEF RefuseInv, RefuseState, InHand
    <3>3. Authorized(known, now, Purpose(req[c]))
      BY <2>1, <2>2, <3>1 DEF RefuseInv, RefuseState, Current, OpenStates, PcStates
    <3>4. Current(c)'
      BY CurrentStays
    <3>5. Authorized(known', now', Purpose(req[c]))
      BY <1>3, <2>1, <2>2, <2>3, <3>4 DEF Current, OpenStates, PcStates
    <3>6. SameDeadlines(known, known')
      BY <1>1, <2>2, <3>3, <3>5, PurposeType DEF KnownStays
    <3> QED
      BY <3>2, <3>6 DEF SameDeadlines
  <2> QED
    BY <2>1, <2>2, <2>3 DEF InHand
<1>4. \A c \in Conns : InHand(c)'
  BY <1>3 DEF InHand
<1>5. \A c \in Conns : Current(c)'
  BY CurrentStays
<1> QED
  BY <1>2, <1>4, <1>5 DEF RefuseInv, RefuseState

\* An answer whose code is justified leaves every answer justified.
LEMMA ReplyAnswered ==
  ASSUME RefuseInv, Watch, NEW c \in Conns, NEW code, NEW body,
         Reply(c, code, body), code \in AuthorityCodes => lost[c]
  PROVE  \A d \in Conns : Answered(d)'
<1> USE DEF RefuseInv, RefuseState, Answered
<1>1. pc'[c] = "done" /\ ans'[c].code = code
  BY DEF Reply, TypeOK, ServerTypeOK
<1>2. Answered(c)'
  BY <1>1, LostStays
<1>3. ASSUME NEW d \in Conns, d # c
      PROVE  Answered(d)'
  <2>1. pc'[d] = pc[d] /\ ans'[d] = ans[d]
    BY <1>3 DEF Reply, TypeOK, ServerTypeOK
  <2>2. NoAnswer.code \notin AuthorityCodes
    BY DEF NoAnswer, AuthorityCodes
  <2>3. ans[d].code \in AuthorityCodes => pc'[d] # "free"
    BY <2>1, <2>2
  <2> QED
    BY <2>1, <2>3, LostStays
<1> QED
  BY <1>2, <1>3

LEMMA ReplyRefuses ==
  ASSUME RefuseInv, TypeOK', Watch, RowMoves,
         NEW c \in Conns, NEW code, NEW body, Reply(c, code, body),
         code \in AuthorityCodes => lost[c]
  PROVE  RefuseInv'
<1>1. \A d \in Conns : Answered(d)'
  BY ReplyAnswered
<1>2. \A d \in Conns : pc'[d] = "decide" =>
        pc[d] = "decide" /\ reg'[d] = reg[d] /\ req'[d] = req[d]
  BY DEF Reply, RefuseInv, TypeOK, ServerTypeOK
<1> QED
  BY <1>1, <1>2, RefuseCalm

\* Where answers stay, connections stay away from free unless they were done.
LEMMA QuietAnswered ==
  ASSUME RefuseInv, Watch, ans' = ans,
         \A c \in Conns : pc[c] # "done" => pc'[c] # "done",
         \A c \in Conns : pc[c] = "done" => pc'[c] = "done"
  PROVE  \A c \in Conns : Answered(c)'
<1>1. NoAnswer.code \notin AuthorityCodes
  BY DEF NoAnswer, AuthorityCodes
<1> QED
  BY <1>1, LostStays DEF RefuseInv, RefuseState, Answered
\* A refusal at the decision: had the request not seen authority lacking, the
\* registration in hand would authorize it now.
LEMMA DecisionJustified ==
  ASSUME RefuseInv, NEW c \in Conns, pc[c] = "decide",
         Confirm(reg[c], now, Purpose(req[c])) # "ok"
  PROVE  lost[c]
<1> SUFFICES ASSUME ~lost[c]
             PROVE  FALSE
  OBVIOUS
<1>1. /\ reg[c] \in Registration /\ known \in Registration /\ now \in Nat
      /\ known # Unregistered
  <2>1. known # Unregistered
    BY DEF RefuseInv, RefuseState, InHand
  <2> QED
    BY <2>1, RowAssumption, ClockAssumption
    DEF RefuseInv, TypeOK, ServerTypeOK, WorldTypeOK, HistoryTypeOK
<1>2. PICK t \in Nat : Authorized(reg[c], t, Purpose(req[c]))
  BY DEF RefuseInv, RefuseState, InHand
<1>3. SameDeadlines(reg[c], known)
  BY DEF RefuseInv, RefuseState, InHand
<1>4. Authorized(known, now, Purpose(req[c]))
  BY <1>1 DEF RefuseInv, RefuseState, Current, OpenStates, PcStates
<1>5. Authorized(reg[c], now, Purpose(req[c]))
  BY <1>1, <1>2, <1>3, <1>4, AuthorizedAgain, PurposeType
<1> QED
  BY <1>1, <1>5, ConfirmComplete, PurposeType

LEMMA RefuseStep ==
  ASSUME RefuseInv, [Next]_vars
  PROVE  RefuseInv'
<1>1. TypeOK'
  BY TypeStep DEF RefuseInv
\* Most steps leave Control's row alone.
<1>2. ASSUME Watch, row' = row
      PROVE  RowMoves
  BY <1>2 DEF RefuseInv, Watch, RowMoves
\* Answers given by anything but the decision.
<1>3. ASSUME NEW c \in Conns,
             \/ GuardRefuses(c) \/ LookupFails(c) \/ ServeScope(c)
             \/ ReadInput(c) \/ StageInput(c) \/ Download(c) \/ LoadFails(c)
             \/ Progress(c) \/ Upload(c) \/ Unavailable(c) \/ PriorStage(c)
             \/ AcceptedStage(c)
             \/ CallFails(c) \/ SubmitRefused(c) \/ SubmitTimesOut(c)
      PROVE  RefuseInv'
  <2>1. Watch /\ row' = row
    BY <1>3
    DEF GuardRefuses, LookupFails, ServeScope, ReadInput, StageInput, Download,
        LoadFails, Progress, Upload, Unavailable, PriorStage, AcceptedStage,
        CallFails,
        SubmitRefused, SubmitTimesOut, ActionFails, OnlyServer, controlVars
  <2>2. \E code, body : Reply(c, code, body) /\ code \notin AuthorityCodes
    BY <1>3
    DEF GuardRefuses, LookupFails, ServeScope, ReadInput, StageInput, Download,
        LoadFails, Progress, Upload, Unavailable, PriorStage, AcceptedStage,
        CallFails,
        SubmitRefused, SubmitTimesOut, ActionFails, StageOrReject,
        AuthorityCodes
  <2> QED
    BY <1>1, <1>2, <2>1, <2>2, ReplyRefuses
<1>4. ASSUME NEW c \in Conns, SubmitAccepted(c) \/ SubmitAnswerLost(c)
      PROVE  RefuseInv'
  <2>1. Watch /\ RowMoves
    BY <1>4, AcceptsMoves DEF SubmitAccepted, SubmitAnswerLost
  <2>2. \E code, body : Reply(c, code, body) /\ code \notin AuthorityCodes
    BY <1>4 DEF SubmitAccepted, SubmitAnswerLost, AuthorityCodes
  <2> QED
    BY <1>1, <2>1, <2>2, ReplyRefuses
<1>5. ASSUME NEW c \in Conns, Dispatch(c)
      PROVE  RefuseInv'
  <2>1. Watch /\ row' = row /\ RowMoves
    BY <1>2, <1>5 DEF Dispatch, OnlyServer, controlVars
  <2>2. CASE \E code \in Refusals : Reply(c, code, NoBytes)
    BY <1>1, <2>1, <2>2, ReplyRefuses DEF Refusals, AuthorityCodes
  <2>3. CASE Proceed(c, "lookup")
    <3>1. \A d \in Conns : Answered(d)'
      BY <1>5, <2>1, <2>3, QuietAnswered
      DEF Dispatch, Proceed, RefuseInv, TypeOK, ServerTypeOK
    <3> QED
      BY <1>1, <2>1, <2>3, <3>1, RefuseCalm
      DEF Proceed, RefuseInv, TypeOK, ServerTypeOK
  <2>4. "ROUTE_FORBIDDEN" \in Refusals
    BY DEF Refusals
  <2> QED
    BY <1>5, <2>2, <2>3, <2>4, ScreenedRefuses DEF Dispatch
\* The read: what is in hand is what Control last knew.
<1>6. ASSUME NEW c \in Conns, Lookup(c)
      PROVE  RefuseInv'
  <2>1. Watch /\ row' = row /\ now' = now /\ RowMoves
    BY <1>2, <1>6 DEF Lookup, OnlyServer, controlVars
  <2>2. CASE \E code \in RetryableCodes : Reply(c, code, NoBytes)
    BY <1>1, <2>1, <2>2, ReplyRefuses DEF RetryableCodes, AuthorityCodes
  <2>3. CASE /\ row # Unregistered
             /\ reg' = [reg EXCEPT ![c] = row]
             /\ pc' = [pc EXCEPT ![c] = "decide"]
             /\ UNCHANGED <<req, proof, ans>>
    <3>1. \A d \in Conns : Answered(d)'
      BY <1>6, <2>1, <2>3, QuietAnswered
      DEF Lookup, RefuseInv, TypeOK, ServerTypeOK
    <3>2. known' = row /\ known = row /\ known' # Unregistered /\ now' \in Nat
      BY <2>1, <2>3, ClockAssumption DEF RefuseInv, Watch, TypeOK, WorldTypeOK
    <3>3. InHand(c)'
      <4>1. reg'[c] = known' /\ pc'[c] = "decide"
        BY <2>3, <3>2 DEF RefuseInv, TypeOK, ServerTypeOK
      <4>2. ASSUME ~lost'[c]
            PROVE  Authorized(known', now', Purpose(req'[c]))
        <5>1. Current(c)'
          BY <1>1, <2>1, CurrentStays
        <5> QED
          BY <3>2, <4>1, <4>2, <5>1 DEF Current, OpenStates, PcStates
      <4>3. ASSUME ~lost'[c]
            PROVE  SameDeadlines(reg'[c], known')
        BY <4>1, <4>2, <4>3 DEF Authorized, SameDeadlines
      <4> QED
        BY <3>2, <4>1, <4>2, <4>3 DEF InHand
    <3>4. \A d \in Conns : Current(d)'
      BY <1>1, <2>1, CurrentStays
    <3>5. ASSUME NEW d \in Conns, d # c, pc'[d] = "decide"
          PROVE  InHand(d)'
      <4>1. pc[d] = "decide" /\ reg'[d] = reg[d] /\ req'[d] = req[d]
        BY <2>3, <3>5 DEF RefuseInv, TypeOK, ServerTypeOK
      <4>2. ~lost'[d] => ~lost[d]
        BY <2>1, <3>5, LostStays
      <4>3. known' = known
        BY <3>2
      <4> QED
        BY <4>1, <4>2, <4>3 DEF RefuseInv, RefuseState, InHand
    <3>6. \A d \in Conns : InHand(d)'
      BY <3>3, <3>5 DEF InHand
    <3> QED
      BY <1>1, <2>1, <3>1, <3>2, <3>4, <3>6 DEF RefuseInv, RefuseState
  <2> QED
    BY <1>6, <2>2, <2>3 DEF Lookup, RetryableCodes
<1>7. ASSUME NEW c \in Conns, Decide(c)
      PROVE  RefuseInv'
  <2>1. Watch /\ row' = row /\ RowMoves
    BY <1>2, <1>7 DEF Decide, OnlyServer, controlVars
  <2>2. CASE Proceed(c, "act")
    <3>1. \A d \in Conns : Answered(d)'
      BY <1>7, <2>1, <2>2, QuietAnswered
      DEF Decide, Proceed, RefuseInv, TypeOK, ServerTypeOK
    <3> QED
      BY <1>1, <2>1, <2>2, <3>1, RefuseCalm
      DEF Proceed, RefuseInv, TypeOK, ServerTypeOK
  <2>3. CASE /\ Confirm(reg[c], now, Purpose(req[c])) # "ok"
             /\ \E code : Reply(c, code, NoBytes)
    <3>1. lost[c]
      BY <1>7, <2>3, DecisionJustified DEF Decide
    <3> QED
      BY <1>1, <2>1, <2>3, <3>1, ReplyRefuses
  <2> QED
    BY <1>7, <2>2, <2>3 DEF Decide
<1>8. ASSUME NEW c \in Conns, Accept(c) \/ GuardPasses(c) \/ ReadArtifact(c)
      PROVE  RefuseInv'
  <2>1. Watch /\ row' = row /\ RowMoves
    BY <1>2, <1>8
    DEF Accept, GuardPasses, ReadArtifact, OnlyServer, controlVars
  <2>2. \A d \in Conns : Answered(d)'
    BY <1>8, <2>1, QuietAnswered
    DEF Accept, GuardPasses, ReadArtifact, Acting, Proceed, RefuseInv, TypeOK,
        ServerTypeOK
  <2>3. \A d \in Conns : pc'[d] = "decide" =>
          pc[d] = "decide" /\ reg'[d] = reg[d] /\ req'[d] = req[d]
    BY <1>8
    DEF Accept, GuardPasses, ReadArtifact, Proceed, RefuseInv, TypeOK,
        ServerTypeOK
  <2> QED
    BY <1>1, <2>1, <2>2, <2>3, RefuseCalm
<1>9. ASSUME NEW c \in Conns, Close(c)
      PROVE  RefuseInv'
  <2>1. Watch /\ row' = row /\ RowMoves
    BY <1>2, <1>9 DEF Close, OnlyServer, controlVars
  <2>2. ASSUME NEW d \in Conns
        PROVE  Answered(d)'
    <3>1. CASE d = c
      BY <1>9, <3>1
      DEF Close, Answered, NoAnswer, AuthorityCodes, RefuseInv, TypeOK,
          ServerTypeOK
    <3>2. CASE d # c
      <4>1. pc'[d] = pc[d] /\ ans'[d] = ans[d]
        BY <1>9, <3>2 DEF Close, RefuseInv, TypeOK, ServerTypeOK
      <4>2. NoAnswer.code \notin AuthorityCodes
        BY DEF NoAnswer, AuthorityCodes
      <4>3. ans[d].code \in AuthorityCodes => pc'[d] # "free" /\ lost[d]
        BY <4>1, <4>2 DEF RefuseInv, RefuseState, Answered
      <4> QED
        BY <2>1, <4>1, <4>3, LostStays DEF RefuseInv, RefuseState, Answered
    <3> QED
      BY <3>1, <3>2
  <2>3. \A d \in Conns : pc'[d] = "decide" =>
          pc[d] = "decide" /\ reg'[d] = reg[d] /\ req'[d] = req[d]
    BY <1>9 DEF Close, RefuseInv, TypeOK, ServerTypeOK
  <2> QED
    BY <1>1, <2>1, <2>2, <2>3, RefuseCalm
<1>10. CASE LateSubmit \/ ControlMoves \/ Tick
  <2>1. Watch /\ UNCHANGED serverVars
    BY <1>10 DEF LateSubmit, ControlMoves, Tick
  <2>2. RowMoves
    <3>1. CASE LateSubmit
      BY <1>2, <2>1, <3>1, AcceptsMoves DEF LateSubmit
    <3>2. CASE ControlMoves
      BY <2>1, <3>2 DEF ControlMoves, Watch, RowMoves
    <3>3. CASE Tick
      BY <1>2, <2>1, <3>3 DEF Tick, controlVars
    <3> QED
      BY <1>10, <3>1, <3>2, <3>3
  <2>3. \A d \in Conns : Answered(d)'
    BY <2>1, QuietAnswered DEF serverVars
  <2> QED
    BY <1>1, <2>1, <2>2, <2>3, RefuseCalm DEF serverVars
<1>11. CASE Restart
  <2>1. Watch /\ row' = row /\ RowMoves
    BY <1>2, <1>11 DEF Restart
  <2>2. \A d \in Conns : Answered(d)' /\ pc'[d] = "free"
    BY <1>11 DEF Restart, Answered, NoAnswer, AuthorityCodes
  <2> QED
    BY <1>1, <2>1, <2>2, RefuseCalm
<1>12. CASE UNCHANGED vars
  BY <1>1, <1>12
  DEF vars, serverVars, controlVars, RefuseInv, RefuseState, Current, InHand,
      Answered
<1> QED
  BY <1>3, <1>4, <1>5, <1>6, <1>7, <1>8, <1>9, <1>10, <1>11, <1>12
  DEF Next, Serve

LEMMA RefuseInit == Init => RefuseInv
BY TypeInit
DEF Init, RefuseInv, RefuseState, Current, InHand, Answered, OpenStates,
    NoAnswer, AuthorityCodes

\* A request is told that its authority ended only if the Pod's registration
\* lacked it at one instant of the request: the decision combines a
\* registration read earlier with a later clock, and is still never wrong
\* about every instant.
THEOREM RefusalsAreJustified == Spec => []RefusalJustified
<1>1. RefuseInv /\ [Next]_vars => RefuseInv'
  BY RefuseStep
<1>2. RefuseInv => RefusalJustified
  BY DEF RefuseInv, RefuseState, Answered, RefusalJustified
<1> QED
  BY <1>1, <1>2, RefuseInit, PTL DEF Spec
-----------------------------------------------------------------------------
(***************************************************************************)
(* The refinement of AuthorityGate.                                         *)
(***************************************************************************)
LEMMA GateAuthorized ==
  \A r, t, p : Gate!Authorized(r, t, p) <=> Authorized(r, t, p)
BY DEF Gate!Authorized, Authorized, Gate!Owner, Owner, Gate!OperationAllows,
       OperationAllows, Gate!BeforeDeadlines, BeforeDeadlines, Gate!Executing,
       Executing, Gate!ControlIntents, ControlIntents

PurposeOf(c) == IF req[c] = NoRequest THEN NoRequest ELSE Purpose(req[c])

\* The watch is the promise's memory, and Control and the clock are free.
LEMMA WorldImplemented ==
  ASSUME TypeOK, TypeOK', Watch, now' \in {now, now + 1}
  PROVE  Gate!World /\ Gate!Remember
<1>1. Gate!World
  BY DEF Gate!World, Watch, TypeOK, WorldTypeOK
<1>2. ASSUME NEW c \in Conns, pc'[c] # "free"
      PROVE  PurposeOf(c)' = Purpose(req'[c])
  BY <1>2, RequestAssumption DEF TypeOK, ServerTypeOK, PurposeOf
<1>3. ASSUME NEW c \in Conns
      PROVE  /\ held'[c] => held[c] \/ /\ row' # Unregistered
                                       /\ Authorized(row', now', PurposeOf(c)')
             /\ lost'[c] => lost[c] \/ /\ known' # Unregistered
                                       /\ ~Authorized(known', now', PurposeOf(c)')
  BY <1>2 DEF Watch, Open
<1>4. Gate!Remember
  BY <1>3, GateAuthorized DEF Gate!Remember, TypeOK, HistoryTypeOK, PurposeOf
<1> QED
  BY <1>1, <1>4

\* The connections other than c.
Others(c) ==
  \A d \in Conns : d # c =>
    pc'[d] = pc[d] /\ ans'[d] = ans[d] /\ req'[d] = req[d]

\* A step of one connection is a step of its phase.
LEMMA OnePhase ==
  ASSUME NEW c \in Conns, Others(c)
  PROVE  /\ [d \in Conns |-> Phase(d)]' =
              [[d \in Conns |-> Phase(d)] EXCEPT ![c] = Phase(c)']
         /\ [d \in Conns |-> PurposeOf(d)]' =
              [[d \in Conns |-> PurposeOf(d)] EXCEPT ![c] = PurposeOf(c)']
<1>1. ASSUME NEW d \in Conns, d # c
      PROVE  Phase(d)' = Phase(d) /\ PurposeOf(d)' = PurposeOf(d)
  BY <1>1 DEF Others, Phase, Granted, PurposeOf
<1> QED
  BY <1>1
\* What a step of a connection may do to its phase.
Stays(c) == Phase(c)' = Phase(c) /\ PurposeOf(c)' = PurposeOf(c)

Arrives(c) ==
  Phase(c) = "idle" /\ Phase(c)' = "open" /\ PurposeOf(c)' \in Purposes

Concludes(c) ==
  /\ PurposeOf(c)' = PurposeOf(c)
  /\ \/ Phase(c) = "open" /\ held[c] /\ Phase(c)' = "granted"
     \/ Phase(c) = "open" /\ lost[c] /\ Phase(c)' = "refused"
     \/ Phase(c) \in {"open", "granted"} /\ Phase(c)' = "failed"

Leaves(c) ==
  /\ Phase(c) \in {"granted", "refused", "failed"} /\ Phase(c)' = "idle"
  /\ PurposeOf(c)' = NoRequest /\ ~held'[c] /\ ~lost'[c]

LEMMA PhaseStep ==
  ASSUME TypeOK, TypeOK', Watch, now' \in {now, now + 1},
         NEW c \in Conns, Others(c),
         Stays(c) \/ Arrives(c) \/ Concludes(c) \/ Leaves(c)
  PROVE  Gate!Next
<1> DEFINE phases == [d \in Conns |-> Phase(d)]
           purposes == [d \in Conns |-> PurposeOf(d)]
<1>1. Gate!World /\ Gate!Remember
  BY WorldImplemented
<1>2. /\ phases' = [phases EXCEPT ![c] = Phase(c)']
      /\ purposes' = [purposes EXCEPT ![c] = PurposeOf(c)']
  BY OnePhase
<1>3. phases[c] = Phase(c) /\ purposes[c] = PurposeOf(c)
  OBVIOUS
<1> HIDE DEF phases, purposes
<1>4. CASE Stays(c)
  <2>1. phases' = phases /\ purposes' = purposes
    BY <1>2, <1>4 DEF Stays, phases, purposes
  <2> QED
    BY <1>1, <2>1 DEF Gate!Next, phases, purposes, PurposeOf
<1>5. CASE Arrives(c)
  <2>1. Gate!Arrive(c)
    BY <1>2, <1>3, <1>5
    DEF Arrives, Gate!Arrive, Gate!Become, Gate!Purposes, Purposes, phases,
        purposes, PurposeOf
  <2> QED
    BY <1>1, <2>1 DEF Gate!Next
<1>6. CASE Concludes(c)
  <2>1. purposes' = purposes
    BY <1>2, <1>6 DEF Concludes, purposes
  <2>2. Gate!Grant(c) \/ Gate!Refuse(c) \/ Gate!Fail(c)
    BY <1>2, <1>3, <1>6, <2>1
    DEF Concludes, Gate!Grant, Gate!Refuse, Gate!Fail, Gate!Become, phases,
        purposes, PurposeOf
  <2> QED
    BY <1>1, <2>2 DEF Gate!Next
<1>7. CASE Leaves(c)
  <2>1. Gate!Leave(c)
    BY <1>2, <1>3, <1>7
    DEF Leaves, Gate!Leave, Gate!Become, phases, purposes, PurposeOf
  <2> QED
    BY <1>1, <2>1 DEF Gate!Next
<1> QED
  BY <1>4, <1>5, <1>6, <1>7

\* What an answer makes of the phase.
LEMMA ReplyPhase ==
  ASSUME TypeOK, NEW c \in Conns, NEW code, NEW body, Reply(c, code, body)
  PROVE  /\ Others(c) /\ PurposeOf(c)' = PurposeOf(c)
         /\ code \in GrantCodes => Phase(c)' = "granted"
         /\ code \in AuthorityCodes => Phase(c)' = "refused"
         /\ code \notin GrantCodes \cup AuthorityCodes => Phase(c)' = "failed"
<1>1. pc'[c] = "done" /\ ans'[c].code = code /\ req'[c] = req[c]
  BY DEF Reply, TypeOK, ServerTypeOK
<1>2. Others(c)
  BY DEF Reply, Others, TypeOK, ServerTypeOK
<1>3. GrantCodes \cap AuthorityCodes = {}
  BY DEF GrantCodes, AuthorityCodes
<1>4. Granted(c)' <=> code \in GrantCodes
  BY <1>1 DEF Granted, GrantCodes
<1> QED
  BY <1>1, <1>2, <1>3, <1>4 DEF Phase, PurposeOf

LEMMA OpenPhase ==
  ASSUME NEW c \in Conns
  PROVE  /\ pc[c] = "free" => Phase(c) = "idle"
         /\ pc[c] \in {"guard", "route", "lookup", "decide"} => Phase(c) = "open"
         /\ pc[c] \in {"act", "download"} => Phase(c) = "granted"
         /\ pc[c] = "done" => Phase(c) \in {"granted", "refused", "failed"}
BY DEF Phase, Granted
\* The invariant of the refinement: that of the grants and of the refusals.
GateInv == GrantInv /\ RefuseInv

LEMMA NextGate ==
  ASSUME GateInv, TypeOK', [Next]_vars
  PROVE  [Gate!Next]_<<row, known, now, [c \in Conns |-> Phase(c)],
                       [c \in Conns |-> PurposeOf(c)], held, lost>>
<1> USE DEF GateInv, GrantInv
<1>1. now \in Nat /\ now' \in Nat
  BY ClockAssumption DEF TypeOK, WorldTypeOK
\* Up to the decision the request is open and may fail.
<1>2. ASSUME NEW c \in Conns,
             GuardRefuses(c) \/ LookupFails(c)
      PROVE  Gate!Next
  <2>1. Watch /\ now' = now /\ Phase(c) = "open"
    BY <1>2, OpenPhase DEF GuardRefuses, LookupFails, OnlyServer
  <2>2. \E code : /\ Reply(c, code, NoBytes)
                  /\ code \notin GrantCodes \cup AuthorityCodes
    BY <1>2 DEF GuardRefuses, LookupFails, GrantCodes, AuthorityCodes
  <2> QED
    BY <2>1, <2>2, ReplyPhase, PhaseStep DEF Concludes
<1>3. ASSUME NEW c \in Conns, Dispatch(c) \/ Lookup(c)
      PROVE  Gate!Next
  <2>1. Watch /\ now' = now /\ Phase(c) = "open"
    BY <1>3, OpenPhase DEF Dispatch, Lookup, OnlyServer
  <2>2. CASE \E code : /\ Reply(c, code, NoBytes)
                       /\ code \in Refusals \cup RetryableCodes
    <3>1. \A code \in Refusals \cup RetryableCodes :
            code \notin GrantCodes \cup AuthorityCodes
      BY DEF Refusals, RetryableCodes, GrantCodes, AuthorityCodes
    <3> QED
      BY <2>1, <2>2, <3>1, ReplyPhase, PhaseStep DEF Concludes
  <2>3. CASE \E to \in {"lookup", "decide"} :
               /\ pc' = [pc EXCEPT ![c] = to]
               /\ UNCHANGED <<req, proof, ans>>
    <3>1. Others(c) /\ pc'[c] \in {"lookup", "decide"} /\ req' = req
      BY <2>3 DEF Others, TypeOK, ServerTypeOK
    <3>2. Phase(c)' = "open"
      BY <3>1 DEF Phase, Granted
    <3> QED
      BY <2>1, <3>1, <3>2, PhaseStep DEF Stays, PurposeOf
  <2>4. /\ "ROUTE_FORBIDDEN" \in Refusals
        /\ {"SCOPE_UNAVAILABLE", "DEPENDENCY_UNAVAILABLE"} \subseteq RetryableCodes
    BY DEF Refusals, RetryableCodes
  <2> QED
    BY <1>3, <2>2, <2>3, <2>4, ScreenedRefuses DEF Dispatch, Lookup, Proceed
\* The decision grants what authority held for, and refuses for good what it
\* was lacking for.
<1>4. ASSUME NEW c \in Conns, Decide(c)
      PROVE  Gate!Next
  <2>1. Watch /\ now' = now /\ Phase(c) = "open" /\ pc[c] = "decide"
    BY <1>4, OpenPhase DEF Decide, OnlyServer
  <2>2. CASE Confirm(reg[c], now, Purpose(req[c])) = "ok" /\ Proceed(c, "act")
    <3>1. reg[c] \in Registration /\ reg[c].own
      BY <2>1, RowAssumption DEF TypeOK, ServerTypeOK, ReadInWindow
    <3>2. held[c]
      BY <1>1, <2>1, <2>2, <3>1, ConfirmSound, PurposeType DEF ReadInWindow
    <3>3. Others(c) /\ pc'[c] = "act" /\ req' = req
      BY <2>2 DEF Proceed, Others, TypeOK, ServerTypeOK
    <3>4. Phase(c)' = "granted"
      BY <3>3 DEF Phase, Granted
    <3> QED
      BY <2>1, <3>2, <3>3, <3>4, PhaseStep DEF Concludes, PurposeOf
  <2>3. CASE /\ Confirm(reg[c], now, Purpose(req[c])) # "ok"
             /\ \E code : Reply(c, code, NoBytes) /\ code \notin GrantCodes
    <3>1. lost[c]
      BY <2>1, <2>3, DecisionJustified
    <3> QED
      BY <2>1, <2>3, <3>1, ReplyPhase, PhaseStep DEF Concludes
  <2>4. \A outcome : ScopeError(outcome) \notin GrantCodes
    BY DEF ScopeError, GrantCodes
  <2> QED
    BY <1>4, <2>2, <2>3, <2>4 DEF Decide
\* After it the grant stays or the request fails.
<1>5. ASSUME NEW c \in Conns,
             \/ ServeScope(c) \/ ReadInput(c) \/ StageInput(c) \/ Download(c)
             \/ LoadFails(c) \/ Progress(c) \/ Upload(c) \/ Unavailable(c)
             \/ PriorStage(c)
             \/ AcceptedStage(c) \/ CallFails(c) \/ SubmitAccepted(c)
             \/ SubmitRefused(c) \/ SubmitAnswerLost(c) \/ SubmitTimesOut(c)
      PROVE  Gate!Next
  <2>1. Watch /\ now' = now /\ pc[c] \in {"act", "download"}
    BY <1>5
    DEF ServeScope, ReadInput, StageInput, Download, LoadFails, Progress, Upload,
        Unavailable,
        PriorStage, AcceptedStage, CallFails, SubmitAccepted, SubmitRefused,
        SubmitAnswerLost, SubmitTimesOut, ActionFails, OnlyServer, Acting
  <2>2. \E code, body : Reply(c, code, body) /\ code \notin AuthorityCodes
    BY <1>5
    DEF ServeScope, ReadInput, StageInput, Download, LoadFails, Progress, Upload,
        Unavailable,
        PriorStage, AcceptedStage, CallFails, SubmitAccepted, SubmitRefused,
        SubmitAnswerLost, SubmitTimesOut, ActionFails, StageOrReject,
        AuthorityCodes
  <2>3. Phase(c) = "granted"
    BY <2>1, OpenPhase
  <2> QED
    BY <2>1, <2>2, <2>3, ReplyPhase, PhaseStep DEF Concludes, Stays
<1>6. ASSUME NEW c \in Conns, GuardPasses(c) \/ ReadArtifact(c)
      PROVE  Gate!Next
  <2>1. Watch /\ now' = now /\ req' = req /\ Others(c)
    BY <1>6
    DEF GuardPasses, ReadArtifact, OnlyServer, Proceed, Others, TypeOK,
        ServerTypeOK
  <2>2. \/ pc[c] = "guard" /\ pc'[c] = "route"
        \/ pc[c] = "act" /\ pc'[c] = "download"
    BY <1>6
    DEF GuardPasses, ReadArtifact, Acting, Proceed, TypeOK, ServerTypeOK
  <2>3. Phase(c)' = Phase(c)
    BY <2>2 DEF Phase, Granted
  <2> QED
    BY <2>1, <2>3, PhaseStep DEF Stays, PurposeOf
<1>7. ASSUME NEW c \in Conns, Accept(c)
      PROVE  Gate!Next
  <2>1. /\ Watch /\ now' = now /\ Others(c) /\ pc'[c] = "guard"
        /\ req'[c] \in Requests
    BY <1>7 DEF Accept, Others, TypeOK, ServerTypeOK
  <2>2. Phase(c) = "idle" /\ Phase(c)' = "open"
    BY <1>7, <2>1, OpenPhase DEF Accept, Phase, Granted
  <2>3. PurposeOf(c)' \in Purposes
    BY <2>1, RequestAssumption, PurposeType DEF PurposeOf
  <2> QED
    BY <2>1, <2>2, <2>3, PhaseStep DEF Arrives
<1>8. ASSUME NEW c \in Conns, Close(c)
      PROVE  Gate!Next
  <2>1. /\ Watch /\ now' = now /\ Others(c) /\ pc'[c] = "free"
        /\ req'[c] = NoRequest
    BY <1>8 DEF Close, OnlyServer, Others, TypeOK, ServerTypeOK
  <2>2. Phase(c)' = "idle" /\ PurposeOf(c)' = NoRequest
    BY <2>1 DEF Phase, Granted, PurposeOf
  <2>3. ~held'[c] /\ ~lost'[c]
    BY <2>1 DEF Watch
  <2>4. Phase(c) \in {"granted", "refused", "failed"}
    BY <1>8, OpenPhase DEF Close
  <2> QED
    BY <2>1, <2>2, <2>3, <2>4, PhaseStep DEF Leaves
<1>9. CASE LateSubmit \/ ControlMoves \/ Tick
  <2>1. Watch /\ now' \in {now, now + 1} /\ UNCHANGED serverVars
    BY <1>9 DEF LateSubmit, ControlMoves, Tick
  <2>2. /\ [c \in Conns |-> Phase(c)]' = [c \in Conns |-> Phase(c)]
        /\ [c \in Conns |-> PurposeOf(c)]' = [c \in Conns |-> PurposeOf(c)]
    BY <2>1 DEF serverVars, Phase, Granted, PurposeOf
  <2> QED
    BY <2>1, <2>2, WorldImplemented DEF Gate!Next, PurposeOf
<1>10. CASE Restart
  <2>1. Watch /\ now' = now
    BY <1>10 DEF Restart
  <2>2. \A c \in Conns : /\ Phase(c)' = "idle" /\ PurposeOf(c)' = NoRequest
                         /\ ~held'[c] /\ ~lost'[c]
    BY <1>10 DEF Restart, Phase, Granted, PurposeOf, Watch
  <2>3. Gate!Restart
    BY <2>2 DEF Gate!Restart, PurposeOf
  <2> QED
    BY <2>1, <2>3, WorldImplemented DEF Gate!Next
<1>11. CASE UNCHANGED vars
  BY <1>11
  DEF vars, serverVars, controlVars, Phase, Granted, PurposeOf
<1> QED
  BY <1>2, <1>3, <1>4, <1>5, <1>6, <1>7, <1>8, <1>9, <1>10, <1>11
  DEF Next, Serve

\* The server implements the promise: each request is granted at most once and
\* only under authority, and refused for good only without it, through rereads
\* of Control, a clock that moves between read and decision, and restarts.
THEOREM GateImplemented == Spec => ImplementsGate
<1>1. Init => Gate!Init
  BY DEF Init, Gate!Init, Phase, Granted
<1>2. GrantInv /\ [Next]_vars => GrantInv'
  BY GrantStep
<1>3. RefuseInv /\ [Next]_vars => RefuseInv'
  BY RefuseStep
<1>4. GrantInv /\ RefuseInv /\ [Next]_vars => [Gate!Next]_Gate!vars
  BY NextGate, TypeStep DEF GateInv, GrantInv, Gate!vars, PurposeOf
<1> QED
  BY <1>1, <1>2, <1>3, <1>4, GrantInit, RefuseInit, PTL
  DEF Spec, ImplementsGate, Gate!Spec

-----------------------------------------------------------------------------
\* Registration.Confirm is the promise itself: of a row of the asked Pod it
\* accepts exactly what is authorized, whichever of its early returns is taken.
THEOREM DecisionIsExact ==
  ASSUME NEW r \in Registration, NEW t \in Nat, NEW p \in Purposes, r.own
  PROVE  Confirm(r, t, p) = "ok" <=> Authorized(r, t, p)
BY ConfirmSound, ConfirmComplete

\* A caller is told of a deadline only where nothing but the deadlines is in
\* the way: at any instant before both the same row would have been authorized.
THEOREM DeadlineIsTheReason ==
  ASSUME NEW r \in Registration, NEW t \in Nat, NEW p \in Purposes, r.own,
         Confirm(r, t, p) = "ErrDeadline"
  PROVE  /\ ~BeforeDeadlines(r, t)
         /\ \A u \in Nat : BeforeDeadlines(r, u) => Authorized(r, u, p)
<1>1. /\ r.operation \in OperationView /\ ~Confirm(r, t, p) = "ok"
      /\ DeadlinePassed(r, t)
  BY DEF Confirm, Registration
<1>2. ASSUME NEW u \in Nat, BeforeDeadlines(r, u)
      PROVE  Authorized(r, u, p)
  <2>1. ~DeadlinePassed(r, u)
    BY <1>1, <1>2, DeadlineAssumption
    DEF DeadlinePassed, BeforeDeadlines, OperationView
  <2>2. Confirm(r, u, p) = "ok"
    BY <2>1 DEF Confirm
  <2> QED
    BY <2>2, ConfirmSound
<1>3. ~BeforeDeadlines(r, t)
  BY <1>1, DeadlineAssumption DEF DeadlinePassed, BeforeDeadlines, OperationView
<1> QED
  BY <1>2, <1>3

-----------------------------------------------------------------------------
(***************************************************************************)
(* What a handler acts on.  The registration it was confirmed with stays in  *)
(* hand until it answers.                                                   *)
(***************************************************************************)
Handling(c) == pc[c] \in {"act", "download"}

ActsAuthorized(c) ==
  Handling(c) => \E t \in 0..now : Authorized(reg[c], t, Purpose(req[c]))

ActInv == \A c \in Conns : ActsAuthorized(c)

\* A handler that acts after a step acted before it, or was confirmed by it.
LEMMA ActsFrom ==
  ASSUME TypeOK, [Next]_vars, NEW c \in Conns, Handling(c)'
  PROVE  /\ reg'[c] = reg[c] /\ req'[c] = req[c]
         /\ \/ Handling(c)
            \/ pc[c] = "decide" /\ Confirm(reg[c], now, Purpose(req[c])) = "ok"
<1> USE DEF Handling, TypeOK, ServerTypeOK
<1>1. ASSUME NEW d \in Conns, \E code, body : Reply(d, code, body)
      PROVE  reg'[c] = reg[c] /\ req'[c] = req[c] /\ pc[c] = pc'[c]
  BY <1>1 DEF Reply
<1>2. ASSUME NEW d \in Conns,
             \/ Accept(d) \/ GuardRefuses(d) \/ GuardPasses(d) \/ Dispatch(d)
             \/ Lookup(d) \/ Close(d)
      PROVE  reg'[c] = reg[c] /\ req'[c] = req[c] /\ pc[c] = pc'[c]
  BY <1>1, <1>2
  DEF Accept, GuardRefuses, GuardPasses, Dispatch, Proceed, Lookup, Close
<1>3. ASSUME NEW d \in Conns, ReadArtifact(d)
      PROVE  reg'[c] = reg[c] /\ req'[c] = req[c] /\ Handling(c)
  BY <1>3 DEF ReadArtifact, Acting, Proceed
<1>4. ASSUME NEW d \in Conns, Decide(d)
      PROVE  /\ reg'[c] = reg[c] /\ req'[c] = req[c]
             /\ \/ Handling(c)
                \/ pc[c] = "decide" /\ Confirm(reg[c], now, Purpose(req[c])) = "ok"
  <2>1. CASE Confirm(reg[d], now, Purpose(req[d])) = "ok" /\ Proceed(d, "act")
    BY <1>4, <2>1 DEF Decide, Proceed
  <2>2. CASE \E code, body : Reply(d, code, body)
    BY <1>1, <2>2
  <2> QED
    BY <1>4, <2>1, <2>2 DEF Decide
<1>5. ASSUME NEW d \in Conns,
             \/ LookupFails(d) \/ ServeScope(d) \/ ReadInput(d) \/ StageInput(d)
             \/ Download(d) \/ LoadFails(d) \/ Progress(d) \/ Upload(d)
             \/ Unavailable(d) \/ PriorStage(d)
             \/ AcceptedStage(d) \/ CallFails(d) \/ SubmitAccepted(d)
             \/ SubmitRefused(d) \/ SubmitAnswerLost(d) \/ SubmitTimesOut(d)
      PROVE  reg'[c] = reg[c] /\ req'[c] = req[c] /\ pc[c] = pc'[c]
  <2>1. \E code, body : Reply(d, code, body)
    BY <1>5
    DEF LookupFails, ServeScope, ReadInput, StageInput, StageOrReject, Download,
        LoadFails, Progress, Upload, Unavailable, PriorStage, AcceptedStage,
        CallFails, ActionFails,
        SubmitAccepted, SubmitRefused, SubmitAnswerLost, SubmitTimesOut
  <2> QED
    BY <1>1, <2>1
<1>6. CASE LateSubmit \/ ControlMoves \/ Tick \/ UNCHANGED vars
  <2>1. UNCHANGED serverVars
    BY <1>6 DEF LateSubmit, ControlMoves, Tick, vars
  <2> QED
    BY <2>1 DEF serverVars
<1>7. CASE Restart
  BY <1>7 DEF Restart
<1>8. CASE \E d \in Conns : Accept(d) \/ Serve(d) \/ Close(d)
  <2>1. PICK d \in Conns : Accept(d) \/ Serve(d) \/ Close(d)
    BY <1>8
  <2> QED
    BY <2>1, <1>2, <1>3, <1>4, <1>5 DEF Serve
<1> QED
  BY <1>6, <1>7, <1>8 DEF Next

LEMMA ClockMoves ==
  ASSUME TypeOK, [Next]_vars
  PROVE  now \in Nat /\ now' \in Nat /\ now' >= now
<1>1. now \in Nat
  BY ClockAssumption DEF TypeOK, WorldTypeOK
<1>2. now' \in {now, now + 1}
  BY DEF Next, Serve, vars, Accept, GuardRefuses, GuardPasses, Dispatch, Lookup,
         LookupFails, Decide, ServeScope, ReadInput, StageInput, ReadArtifact,
         Download, LoadFails, Progress, Upload, Unavailable, PriorStage,
         AcceptedStage, CallFails,
         ActionFails, SubmitAccepted, SubmitRefused, SubmitAnswerLost,
         SubmitTimesOut, Close, LateSubmit, Restart, ControlMoves, Tick, OnlyServer
<1> QED
  BY <1>1, <1>2

LEMMA ActStep ==
  ASSUME GrantInv, ActInv, [Next]_vars
  PROVE  ActInv'
<1> SUFFICES ASSUME NEW c \in Conns, Handling(c)'
             PROVE  \E t \in 0..now' : Authorized(reg'[c], t, Purpose(req'[c]))
  BY DEF ActInv, ActsAuthorized
<1>1. TypeOK /\ now \in Nat /\ now' \in Nat /\ now' >= now
  BY ClockMoves DEF GrantInv
<1>2. /\ reg'[c] = reg[c] /\ req'[c] = req[c]
      /\ \/ Handling(c)
         \/ pc[c] = "decide" /\ Confirm(reg[c], now, Purpose(req[c])) = "ok"
  BY <1>1, ActsFrom
<1>3. CASE Handling(c)
  BY <1>1, <1>2, <1>3 DEF ActInv, ActsAuthorized
<1>4. CASE pc[c] = "decide" /\ Confirm(reg[c], now, Purpose(req[c])) = "ok"
  <2>1. reg[c] \in Registration /\ reg[c].own
    BY <1>1, <1>4, RowAssumption DEF TypeOK, ServerTypeOK, GrantInv, ReadInWindow
  <2>2. Authorized(reg[c], now, Purpose(req[c]))
    BY <1>1, <1>4, <2>1, ConfirmSound, PurposeType
  <2> QED
    BY <1>1, <1>2, <2>2
<1> QED
  BY <1>2, <1>3, <1>4

\* What ResultFence leaves standing: a handler acts on a registration of the
\* current epoch, with an operation that runs under no control intent or, for a
\* result only, with one that carries a control intent (Registration.Confirm,
\* fenced).
FencedUnlessControlled ==
  \A c \in Conns : Handling(c) =>
    /\ reg[c].operation # NoOperation
    /\ OperationAllows(reg[c].operation, Purpose(req[c]))
    /\ reg[c].current /\ reg[c].operation.epoch = ExecutionEpoch

\* No handler acts past the fence, for any rows, purposes and interleavings, but
\* for the one exception of a result under a control intent.
THEOREM FenceExtent == Spec => []FencedUnlessControlled
<1>1. Init => ActInv
  BY DEF Init, ActInv, ActsAuthorized, Handling
<1>2. GrantInv /\ [Next]_vars => GrantInv'
  BY GrantStep
<1>3. ActInv => FencedUnlessControlled
  BY DEF ActInv, ActsAuthorized, Authorized, Owner, FencedUnlessControlled
<1> QED
  BY <1>1, <1>2, <1>3, GrantInit, ActStep, PTL DEF Spec
=============================================================================
