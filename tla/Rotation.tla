------------------------------- MODULE Rotation -------------------------------
(***************************************************************************)
(* The connections whose trust follows the Reloader (internal/identity:       *)
(* serverCreds, connTracker, HTTPTransport).  Server connections are         *)
(* remembered by the root that verified their peer and closed when a reload  *)
(* retires it; the pool of the HTTP client loses its idle connections.  A    *)
(* handshake takes the material in force when it begins and may end long     *)
(* after the next one is announced.                                         *)
(*                                                                          *)
(* The pool itself is net/http's: a connection is handed to the call that    *)
(* waits first, kept idle otherwise, and closed instead of kept from a      *)
(* closing of the idle ones until the next call.                            *)
(***************************************************************************)
EXTENDS Reloader, FiniteSets

CONSTANTS
  Conns,   \* server connections
  Pool,    \* connections of the HTTP client
  Calls,   \* HTTP calls in progress at the same time
  NoConn,  \* a call that is not sent
  NoRoot   \* a connection whose peer is not verified

ASSUME PoolAssumption == NoConn \notin Pool /\ Conns \cap Pool = {}

VARIABLES
  conn,     \* server connections: how far, captured roots, verifying root
  pool,     \* the client's connections, likewise
  call,     \* the client's calls and the connection each one is sent over
  closing,  \* the pool closes what becomes idle
  missed    \* history: connections the last retirement could not reach

connVars == <<conn, pool, call, closing, missed>>
vars == <<reloaderVars, connVars>>

Free == [step |-> "free", trust |-> {}, root |-> NoRoot]

-----------------------------------------------------------------------------
(***************************************************************************)
(* Server connections.                                                      *)
(***************************************************************************)
HandshakeStarts(c) ==
  /\ conn[c].step = "free"
  /\ conn' = [conn EXCEPT ![c] =
       [step |-> "shaking", trust |-> current.ca, root |-> NoRoot]]
  /\ UNCHANGED <<reloaderVars, pool, call, closing, missed>>

\* The peer's chain ends in one of the captured roots; the connection is
\* tracked under it.
HandshakeEnds(c) ==
  /\ conn[c].step = "shaking"
  /\ \E r \in conn[c].trust :
       conn' = [conn EXCEPT ![c].step = "open", ![c].root = r]
  /\ UNCHANGED <<reloaderVars, pool, call, closing, missed>>

\* The handshake fails, or the open connection is closed and untracked.
ConnCloses(c) ==
  /\ conn[c].step # "free"
  /\ conn' = [conn EXCEPT ![c] = Free]
  /\ missed' = missed \ {c}
  /\ UNCHANGED <<reloaderVars, pool, call, closing>>

\* Mutants: a connection is judged by what its handshake would have accepted;
\* or by whether that is what a handshake would accept now.
CloseUntrusting(m) ==
  conn' = [c \in Conns |->
    IF conn[c].step = "open" /\ conn[c].trust \cap m.ca = {} THEN Free ELSE conn[c]]

CloseChanged(m) ==
  conn' = [c \in Conns |->
    IF conn[c].step = "open" /\ conn[c].trust # m.ca THEN Free ELSE conn[c]]

\* connTracker.closeRetired.
CloseRetired(m) ==
  conn' = [c \in Conns |->
    IF conn[c].step = "open" /\ conn[c].root \notin m.ca THEN Free ELSE conn[c]]

-----------------------------------------------------------------------------
(***************************************************************************)
(* The HTTP client.                                                         *)
(***************************************************************************)
Idle == {h \in Pool : pool[h].step = "idle"}
Dialing == {h \in Pool : pool[h].step = "dialing"}
Waiting == {q \in Calls : call[q] = [step |-> "waiting", via |-> NoConn]}

CallStarts(q) ==
  /\ call[q].step = "none"
  /\ closing' = FALSE
  /\ \/ /\ Idle = {}
        /\ call' = [call EXCEPT ![q].step = "waiting"]
        /\ UNCHANGED pool
     \/ \E h \in Idle :
          /\ call' = [call EXCEPT ![q] = [step |-> "sent", via |-> h]]
          /\ pool' = [pool EXCEPT ![h].step = "busy"]
  /\ UNCHANGED <<reloaderVars, conn, missed>>

\* DialTLSContext: the bundle is the one in force when the TLS client is made.
DialStarts(h) ==
  /\ pool[h].step = "free"
  /\ Cardinality(Dialing) < Cardinality(Waiting)
  /\ pool' = [pool EXCEPT ![h] =
       [step |-> "dialing", trust |-> current.ca, root |-> NoRoot]]
  /\ UNCHANGED <<reloaderVars, conn, call, closing, missed>>

\* A connection without a call goes to a waiting one, or is kept or closed.
Hand(h, c, calls) ==
  LET waiting == {q \in Calls : calls[q].step = "waiting"} IN
    \/ \E q \in waiting :
         /\ call' = [calls EXCEPT ![q] = [step |-> "sent", via |-> h]]
         /\ pool' = [pool EXCEPT ![h] = [c EXCEPT !.step = "busy"]]
         /\ UNCHANGED missed
    \/ /\ waiting = {} /\ ~closing
       /\ call' = calls
       /\ pool' = [pool EXCEPT ![h] = [c EXCEPT !.step = "idle"]]
       /\ UNCHANGED missed
    \/ /\ waiting = {} /\ closing
       /\ call' = calls
       /\ pool' = [pool EXCEPT ![h] = Free]
       /\ missed' = missed \ {h}

DialEnds(h) ==
  /\ pool[h].step = "dialing"
  /\ \E r \in pool[h].trust : Hand(h, [pool[h] EXCEPT !.root = r], call)
  /\ UNCHANGED <<reloaderVars, conn, closing>>

\* The call that waited for the dial fails, unless another connection was
\* handed to it meanwhile.
DialFails(h) ==
  /\ pool[h].step = "dialing"
  /\ pool' = [pool EXCEPT ![h] = Free]
  /\ \/ \E q \in Waiting : call' = [call EXCEPT ![q].step = "none"]
     \/ Cardinality(Dialing) > Cardinality(Waiting) /\ UNCHANGED call
  /\ missed' = missed \ {h}
  /\ UNCHANGED <<reloaderVars, conn, closing>>

CallEnds(q) ==
  /\ call[q].step = "sent"
  /\ LET h == call[q].via
         calls == [call EXCEPT ![q] = [step |-> "none", via |-> NoConn]]
     IN \/ Hand(h, pool[h], calls)
        \/ /\ call' = calls
           /\ pool' = [pool EXCEPT ![h] = Free]
           /\ missed' = missed \ {h}
  /\ UNCHANGED <<reloaderVars, conn, closing>>

\* The server closes an idle connection.
IdleCloses(h) ==
  /\ h \in Idle
  /\ pool' = [pool EXCEPT ![h] = Free]
  /\ missed' = missed \ {h}
  /\ UNCHANGED <<reloaderVars, conn, call, closing>>

CloseIdle ==
  /\ pool' = [h \in Pool |-> IF h \in Idle THEN Free ELSE pool[h]]
  /\ closing' = TRUE

-----------------------------------------------------------------------------
(***************************************************************************)
(* The callbacks of a reload.  What they cannot reach is a handshake in     *)
(* progress and, in the pool, a connection in use.                          *)
(***************************************************************************)
Shaking == {c \in Conns : conn[c].step = "shaking"}
Engaged == {h \in Pool : pool[h].step \in {"dialing", "busy"}}

NotifyConns(p) ==
  LET m == Material(reload[p].read) IN
    /\ Notify(p)
    /\ CloseRetired(m)
    /\ IF RetiredRoots(reload[p].cur, m) # {}
       THEN CloseIdle /\ missed' = Shaking \cup Engaged
       ELSE /\ UNCHANGED <<pool, closing>>
            /\ missed' = Shaking \cup (missed \cap Pool)
    /\ UNCHANGED call

Init ==
  /\ ReloaderInit
  /\ conn = [c \in Conns |-> Free]
  /\ pool = [h \in Pool |-> Free]
  /\ call = [q \in Calls |-> [step |-> "none", via |-> NoConn]]
  /\ closing = FALSE
  /\ missed = {}

Serving ==
  \E c \in Conns : HandshakeStarts(c) \/ HandshakeEnds(c) \/ ConnCloses(c)

Calling ==
  \/ \E q \in Calls : CallStarts(q) \/ CallEnds(q)
  \/ \E h \in Pool : DialStarts(h) \/ DialEnds(h) \/ DialFails(h) \/ IdleCloses(h)

Next ==
  \/ \E p \in Callers : (Reload(p) \/ Reloading(p)) /\ UNCHANGED connVars
  \/ \E p \in Callers : NotifyConns(p)
  \/ World /\ UNCHANGED connVars
  \/ Serving
  \/ Calling

Spec == Init /\ [][Next]_vars

-----------------------------------------------------------------------------
Connection(steps) ==
  [step : steps, trust : SUBSET Certs, root : Certs \cup {NoRoot}]

ConnTypeOK ==
  /\ conn \in [Conns -> Connection({"free", "shaking", "open"})]
  /\ pool \in [Pool -> Connection({"free", "dialing", "idle", "busy"})]
  /\ call \in [Calls -> [step : {"none", "waiting", "sent"}, via : Pool \cup {NoConn}]]
  /\ closing \in BOOLEAN
  /\ missed \subseteq Conns \cup Pool

\* A connection in use is the one of a single call.
CallsOwn ==
  \A q \in Calls :
    call[q].step = "sent" =>
      /\ call[q].via \in Pool /\ pool[call[q].via].step = "busy"
      /\ \A o \in Calls \ {q} : call[o].via # call[q].via

\* A call that is not sent names no connection.
CallsFree ==
  \A q \in Calls : call[q].step # "sent" => call[q].via = NoConn

\* The Reloader and the connections keep their types, and each connection in
\* use belongs to one call.
TypeOK == ReloaderTypeOK /\ ConnTypeOK /\ CallsOwn /\ CallsFree

\* No published material waits for its callbacks.
Announced == \A p \in Callers : reload[p].step # "notify"

\* An open server connection whose root is no longer trusted can only be one
\* that was still in its handshake when the retirement was announced: the
\* announcement itself closes every other, whichever material it was verified
\* under (connTracker.closeRetired).
ServerTrust ==
  Announced =>
    \A c \in Conns :
      conn[c].step = "open" /\ c \notin missed => conn[c].root \in current.ca

\* The same of the HTTP client: what the pool keeps or a call uses under a
\* retired root was being dialled or was in use when the retirement was
\* announced (HTTPTransport's OnChange callback).
PoolTrust ==
  Announced =>
    \A h \in Pool :
      pool[h].step \in {"idle", "busy"} /\ h \notin missed =>
        pool[h].root \in current.ca

\* The callbacks close exactly the connections of retired roots: one whose
\* root is still trusted survives the announcement (connTracker).
OnlyRetiredClosed ==
  [][\A c \in Conns :
       (~Announced /\ Announced' /\ conn[c].step = "open"
          /\ conn[c].root \in current.ca) => conn'[c] = conn[c]]_vars

\* A connected peer's chain is accepted only while its root is in the
\* material in force (the comments on Material.Roots and on connTracker).
AcceptedWhileRooted ==
  Announced =>
    \A c \in Conns : conn[c].step = "open" => conn[c].root \in current.ca

\* A call begun after a retirement was announced is never sent over a kept
\* connection of the retired root (the comment on HTTPTransport).
NextCallUnderCurrentTrust ==
  [][\A q \in Calls :
       (Announced /\ call[q].step = "none" /\ call'[q].step = "sent") =>
         pool[call'[q].via].root \in current.ca]_vars
=============================================================================
