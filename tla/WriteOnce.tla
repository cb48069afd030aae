------------------------------ MODULE WriteOnce ------------------------------
(***************************************************************************)
(* What the sidecar's retried writes promise their callers: for each key    *)
(* one value is settled, once, and every caller that is told of it, then or  *)
(* later, is told that value.                                               *)
(***************************************************************************)
CONSTANTS Keys, Values, Unsettled

VARIABLES settled, told

Init ==
  /\ settled = [k \in Keys |-> Unsettled]
  /\ told = {}

Settle(k) ==
  /\ settled[k] = Unsettled
  /\ settled'[k] \in Values
  /\ settled' = [settled EXCEPT ![k] = settled'[k]]

\* A write may be told of in the step that settles it.
Tell(k) ==
  /\ settled'[k] # Unsettled
  /\ told' = told \cup {<<k, settled'[k]>>}

Next ==
  \E k \in Keys :
    \/ Settle(k) /\ (UNCHANGED told \/ Tell(k))
    \/ UNCHANGED settled /\ Tell(k)

Spec == Init /\ [][Next]_<<settled, told>>
=============================================================================
