------------------------------ MODULE Authority ------------------------------
(***************************************************************************)
(* The execution authority of a Job Pod, as internal/scope decides it: what *)
(* Control answers about the Pod (Registration), what the launch envelope   *)
(* fixed for it (Binding), and Registration.Confirm, which decides whether  *)
(* the answer authorizes a purpose now.  Next to the decision stands the    *)
(* promise its callers rely on, Authorized, written without the order of    *)
(* the code's early returns.                                                *)
(***************************************************************************)
EXTENDS Naturals

CONSTANTS
  ExecutionEpoch,  \* the execution epoch the launch envelope names
  LaunchEpoch,     \* the launch epoch the launch envelope names
  NoDeadline,      \* the operation has no deadline of its own
  NoOperation      \* Control did not report the operation

ASSUME EnvelopeAssumption == ExecutionEpoch \in Nat /\ LaunchEpoch \in Nat
ASSUME DeadlineAssumption == NoDeadline \notin Nat

Purposes == {"ForNewAuthorization", "ForResult"}

Executing == {"LAUNCH_PREPARED", "RUNNING"}
AttemptStates == Executing \cup {"RESULT_ACCEPTED", "CLOSED"}

Terminal == {"SUCCEEDED", "FAILED", "CANCELED"}
Lifecycles == Terminal \cup {"RUNNING", "RECONCILING"}

\* The intents under which an operation is controlled, and the two values
\* that mean there is none.
ControlIntents == {"CANCEL_PENDING", "CANCEL_APPLIED", "HOLD"}
ControlStates == ControlIntents \cup {"NONE", "UNSPECIFIED"}

(***************************************************************************)
(* The operation as Control reports it, and the whole answer.  `own' says   *)
(* that the instance row carries the Pod UID, launch key and backend that   *)
(* were asked for, `named' that it names the envelope's attempt, operation, *)
(* profile and launch key, `coherent' that the three records belong         *)
(* together.                                                                *)
(***************************************************************************)
OperationView ==
  [epoch : Nat, lifecycle : Lifecycles, control : ControlStates,
   deadline : Nat \cup {NoDeadline}]

Registration ==
  [own : BOOLEAN, attempt : BOOLEAN, named : BOOLEAN, coherent : BOOLEAN,
   current : BOOLEAN, state : AttemptStates, epoch : Nat, launchEpoch : Nat,
   deadline : Nat, operation : OperationView \cup {NoOperation}]

-----------------------------------------------------------------------------
(***************************************************************************)
(* The decision, in the order of the code's early returns.                  *)
(***************************************************************************)
Outcomes == {"ok", "ErrUnavailable", "ErrNoAuthority", "ErrStale", "ErrDeadline"}

Controlled(op) == op.control \in ControlIntents

Fenced(op) ==
  Controlled(op) \/ op.lifecycle \in Terminal \/ op.lifecycle = "RECONCILING"

\* Mutant: an accepted result does not end new work.
StateAllowsAccepted(state, purpose) == state \in Executing \cup {"RESULT_ACCEPTED"}

StateAllows(state, purpose) ==
  \/ state \in Executing
  \/ purpose = "ForResult" /\ state = "RESULT_ACCEPTED"

FenceRefuses(op, purpose) ==
  Fenced(op) /\ (purpose = "ForNewAuthorization" \/ ~Controlled(op))

\* Mutants: the attempt's deadline alone; each deadline an instant early.
DeadlineOfAttempt(r, now) == ~(now < r.deadline)

DeadlineEarly(r, now) ==
  \/ ~(now + 1 < r.deadline)
  \/ r.operation.deadline # NoDeadline /\ ~(now + 1 < r.operation.deadline)

DeadlinePassed(r, now) ==
  \/ ~(now < r.deadline)
  \/ r.operation.deadline # NoDeadline /\ ~(now < r.operation.deadline)

Confirm(r, now, purpose) ==
  IF ~r.attempt \/ r.operation = NoOperation THEN "ErrUnavailable"
  ELSE IF ~r.named THEN "ErrNoAuthority"
  ELSE IF ~r.coherent THEN "ErrUnavailable"
  ELSE IF r.epoch # ExecutionEpoch \/ r.launchEpoch # LaunchEpoch
    THEN "ErrNoAuthority"
  ELSE IF ~r.current THEN "ErrNoAuthority"
  ELSE IF ~StateAllows(r.state, purpose) THEN "ErrStale"
  ELSE IF r.operation.epoch # r.epoch THEN "ErrStale"
  ELSE IF FenceRefuses(r.operation, purpose) THEN "ErrStale"
  ELSE IF DeadlinePassed(r, now) THEN "ErrDeadline"
  ELSE "ok"

-----------------------------------------------------------------------------
(***************************************************************************)
(* The promise.  An instance may act for a purpose at an instant when       *)
(* Control holds it to be the current instance of the envelope's attempt,   *)
(* under the envelope's epochs, with the attempt open for the purpose, the  *)
(* operation at the same execution epoch and free of what ends the purpose, *)
(* and no deadline reached.  A control intent ends new work; for a result   *)
(* it supersedes the lifecycle, because the decision leaves a controlled    *)
(* operation to Control's own acceptance.                                   *)
(***************************************************************************)
Owner(r) ==
  /\ r.own /\ r.attempt /\ r.named /\ r.coherent /\ r.current
  /\ r.epoch = ExecutionEpoch
  /\ r.launchEpoch = LaunchEpoch

OperationAllows(op, purpose) ==
  \/ op.lifecycle = "RUNNING" /\ op.control \notin ControlIntents
  \/ purpose = "ForResult" /\ op.control \in ControlIntents

BeforeDeadlines(r, now) ==
  now < r.deadline
    /\ (r.operation.deadline \in Nat => now < r.operation.deadline)

Authorized(r, now, purpose) ==
  /\ Owner(r)
  /\ r.state \in Executing
       \cup (IF purpose = "ForResult" THEN {"RESULT_ACCEPTED"} ELSE {})
  /\ r.operation # NoOperation
  /\ r.operation.epoch = ExecutionEpoch
  /\ OperationAllows(r.operation, purpose)
  /\ BeforeDeadlines(r, now)
=============================================================================
