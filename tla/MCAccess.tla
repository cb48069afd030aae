------------------------------- MODULE MCAccess -------------------------------
(***************************************************************************)
(* Small instances of Access.  The authority instance has one connection    *)
(* and every single defect a registration can have, with the moments around *)
(* both deadlines; the sharing instance has two connections that contend    *)
(* for the staged inputs and the attempt's result.                          *)
(***************************************************************************)
EXTENDS Access, TLC

CONSTANTS c1, c2, b1, b2

-----------------------------------------------------------------------------
Running == [epoch |-> 1, lifecycle |-> "RUNNING", control |-> "NONE",
            deadline |-> NoDeadline]

\* The registration that authorizes everything until instant 3.
Good ==
  [own |-> TRUE, attempt |-> TRUE, named |-> TRUE, coherent |-> TRUE,
   current |-> TRUE, state |-> "RUNNING", epoch |-> 1, launchEpoch |-> 1,
   deadline |-> 3, operation |-> Running]

Defects ==
  {[Good EXCEPT !.own = FALSE], [Good EXCEPT !.attempt = FALSE],
   [Good EXCEPT !.named = FALSE, !.deadline = 2], [Good EXCEPT !.coherent = FALSE],
   [Good EXCEPT !.current = FALSE],
   [Good EXCEPT !.epoch = 2, !.operation.epoch = 2],
   [Good EXCEPT !.launchEpoch = 2],
   [Good EXCEPT !.state = "CLOSED"],
   [Good EXCEPT !.operation = NoOperation],
   [Good EXCEPT !.operation.epoch = 2],
   [Good EXCEPT !.operation.lifecycle = "FAILED"],
   [Good EXCEPT !.operation.lifecycle = "RECONCILING"],
   [Good EXCEPT !.operation.control = "CANCEL_PENDING"],
   [Good EXCEPT !.operation.control = "CANCEL_APPLIED",
                !.operation.lifecycle = "CANCELED"]}

WithAccepted(rows) ==
  rows \cup {[r EXCEPT !.state = "RESULT_ACCEPTED"] : r \in rows}

\* Both deadlines: the attempt's at 3 and, in the second family, the
\* operation's own at 2.
AuthorityRows ==
  WithAccepted({Good, [Good EXCEPT !.operation.deadline = 2],
                [Good EXCEPT !.operation.deadline = 2,
                             !.operation.control = "HOLD"]} \cup Defects)

SharingRows == WithAccepted({Good})

-----------------------------------------------------------------------------
Ask(socket, route, name, bytes) ==
  [socket |-> socket, uid |-> socket, nonce |-> TRUE, token |-> socket,
   route |-> route, name |-> name, bytes |-> bytes, fit |-> "ok"]

Foreign ==
  {[Ask("trusted", "submit", "brief", b1) EXCEPT !.uid = "candidate"],
   [Ask("trusted", "submit", "brief", b1) EXCEPT !.token = "candidate"],
   [Ask("trusted", "submit", "brief", b1) EXCEPT !.nonce = FALSE],
   Ask("candidate", "submit", "brief", b1)}

Unfit ==
  {[Ask("trusted", "stage", "brief", b1) EXCEPT !.fit = "large"],
   [Ask("trusted", "submit", "brief", b1) EXCEPT !.fit = "malformed"],
   [Ask("trusted", "prior", "brief", b1) EXCEPT !.fit = "malformed"],
   [Ask("candidate", "read", "brief", b1) EXCEPT !.fit = "malformed"],
   [Ask("trusted", "transfer", "brief", b1) EXCEPT !.fit = "large"]}

AuthorityRequests ==
  {Ask("trusted", "scope", "brief", b1), Ask("trusted", "submit", "brief", b1),
   Ask("trusted", "accepted", "brief", b1), Ask("trusted", "prior", "brief", b1),
   Ask("trusted", "progress", "brief", b1), Ask("trusted", "load", "brief", b1),
   Ask("trusted", "transfer", "brief", b1), Ask("trusted", "knowledge", "brief", b1)}
    \cup Foreign \cup Unfit

SharingRequests ==
  {Ask("trusted", "stage", "brief", b1), Ask("trusted", "stage", "brief", b2),
   Ask("trusted", "load", "source", b1), Ask("trusted", "read", "source", b1),
   Ask("candidate", "read", "brief", b1), Ask("candidate", "stage", "brief", b1),
   Ask("trusted", "submit", "brief", b1), Ask("trusted", "submit", "brief", b2),
   Ask("trusted", "accepted", "brief", b1)}

Swap == Permutations({c1, c2})

InputNames == {"brief", "source"}
Digests == [b \in Bytes |-> IF b = b1 THEN "d1" ELSE "d2"]
DeclaredDigests == [n \in InputNames |-> "d1"]
RecordedDigests == [n \in {"source"} |-> "d1"]
=============================================================================
