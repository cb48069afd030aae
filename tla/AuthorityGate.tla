---------------------------- MODULE AuthorityGate ----------------------------
(***************************************************************************)
(* What the access server promises about authority, without how it decides: *)
(* each request is granted at most once, only if authority held for its     *)
(* purpose at some instant since it arrived, and refused for good only if   *)
(* the Pod's registration lacked it at such an instant.  A request may fail  *)
(* at any time.                                                             *)
(***************************************************************************)
EXTENDS Authority

CONSTANTS Conns, Rows, Unregistered, NoPurpose

VARIABLES
  row,      \* Control's registration of the Pod
  known,    \* the last registration Control held
  now,      \* the clock
  phase,    \* what has become of the request on each connection
  purpose,  \* the purpose of the request on each connection
  held,     \* authority held at some instant since it arrived
  lost      \* the registration lacked authority at some instant since

vars == <<row, known, now, phase, purpose, held, lost>>

Phases == {"idle", "open", "granted", "refused", "failed"}

\* Control and the clock move as they please.
World ==
  /\ row' \in Rows \cup {Unregistered}
  /\ known' = IF row' = Unregistered THEN known ELSE row'
  /\ now' \in {now, now + 1}

\* The instants of a request end with its grant or its refusal as far as this
\* promise goes; later ones may be remembered too.
Remember ==
  /\ held' \in [Conns -> BOOLEAN]
  /\ lost' \in [Conns -> BOOLEAN]
  /\ \A c \in Conns :
       /\ held'[c] => held[c] \/ /\ row' # Unregistered
                                 /\ Authorized(row', now', purpose'[c])
       /\ lost'[c] => lost[c] \/ /\ known' # Unregistered
                                 /\ ~Authorized(known', now', purpose'[c])

Become(c, p) == phase' = [phase EXCEPT ![c] = p]

Arrive(c) ==
  /\ phase[c] = "idle"
  /\ Become(c, "open")
  /\ \E p \in Purposes : purpose' = [purpose EXCEPT ![c] = p]

Grant(c) ==
  phase[c] = "open" /\ held[c] /\ Become(c, "granted") /\ UNCHANGED purpose

Refuse(c) ==
  phase[c] = "open" /\ lost[c] /\ Become(c, "refused") /\ UNCHANGED purpose

Fail(c) ==
  phase[c] \in {"open", "granted"} /\ Become(c, "failed") /\ UNCHANGED purpose

\* The connection closes and the next request starts from nothing.
Leave(c) ==
  /\ phase[c] \in {"granted", "refused", "failed"}
  /\ Become(c, "idle")
  /\ purpose' = [purpose EXCEPT ![c] = NoPurpose]
  /\ ~held'[c] /\ ~lost'[c]

\* The server starts again and every connection with it.
Restart ==
  /\ phase' = [c \in Conns |-> "idle"]
  /\ purpose' = [c \in Conns |-> NoPurpose]
  /\ \A c \in Conns : ~held'[c] /\ ~lost'[c]

Next ==
  /\ \/ Restart
     \/ \E c \in Conns : Arrive(c) \/ Grant(c) \/ Refuse(c) \/ Fail(c) \/ Leave(c)
     \/ UNCHANGED <<phase, purpose>>
  /\ World
  /\ Remember

Init ==
  /\ row = Unregistered /\ known = Unregistered /\ now = 0
  /\ phase = [c \in Conns |-> "idle"]
  /\ purpose = [c \in Conns |-> NoPurpose]
  /\ held = [c \in Conns |-> FALSE]
  /\ lost = [c \in Conns |-> FALSE]

Spec == Init /\ [][Next]_vars
=============================================================================
