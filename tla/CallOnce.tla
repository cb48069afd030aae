------------------------------ MODULE CallOnce ------------------------------
(***************************************************************************)
(* What the relays promise of tool and model calls.  A request has one call, *)
(* begun once under one identity, whoever asks for it and however often; a   *)
(* caller is told of the call of its own request and of no other, and that   *)
(* it is over only once it is.  Told so, it does not ask again.              *)
(***************************************************************************)
CONSTANTS Identities, Callers, Requests, Nothing

VARIABLES
  begun,  \* the request the call of each identity was begun for
  ended,  \* the identities whose call is over
  asked,  \* what each caller asks for
  told    \* what it was told of it

Init ==
  /\ begun = [k \in Identities |-> Nothing]
  /\ ended = {}
  /\ asked = [c \in Callers |-> Nothing]
  /\ told = [c \in Callers |-> "nothing"]

Begin(k) ==
  /\ begun[k] = Nothing
  /\ begun'[k] \in Requests
  /\ \A j \in Identities : begun[j] # begun'[k]
  /\ begun' = [begun EXCEPT ![k] = begun'[k]]
  /\ UNCHANGED ended

End(k) ==
  /\ begun[k] # Nothing
  /\ ended' = ended \cup {k}
  /\ UNCHANGED begun

\* A caller asks, and asks the same again.
Ask(c) ==
  /\ asked'[c] \in Requests
  /\ asked[c] \in {Nothing, asked'[c]}
  /\ asked' = [asked EXCEPT ![c] = asked'[c]]
  /\ told[c] # "over"
  /\ told' = [told EXCEPT ![c] = "nothing"]

Leave(c) ==
  /\ asked' = [asked EXCEPT ![c] = Nothing]
  /\ told' = [told EXCEPT ![c] = "nothing"]

\* The call may begin in the step that tells of it.
Tell(c) ==
  /\ told[c] = "nothing"
  /\ \E k \in Identities :
       /\ begun'[k] = asked[c] /\ begun'[k] # Nothing
       /\ \/ told' = [told EXCEPT ![c] = "begun"]
          \/ k \in ended' /\ told' = [told EXCEPT ![c] = "over"]
  /\ UNCHANGED asked

Next ==
  \/ \E k \in Identities : (Begin(k) \/ End(k)) /\ UNCHANGED <<asked, told>>
  \/ \E c \in Callers : (Ask(c) \/ Leave(c)) /\ UNCHANGED <<begun, ended>>
  \/ \E c \in Callers :
       Tell(c) /\ (UNCHANGED <<begun, ended>> \/ \E k \in Identities : Begin(k))

Spec == Init /\ [][Next]_<<begun, ended, asked, told>>
=============================================================================
