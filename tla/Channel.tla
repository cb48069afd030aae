------------------------------- MODULE Channel -------------------------------
(***************************************************************************)
(* A gRPC connection of the process to Control, MCP or Knowledge             *)
(* (internal/identity: clientCreds, internal/scope Dial).  Each handshake     *)
(* takes the bundle in force when it begins; nothing closes the connection   *)
(* when a root is retired.  The server's certificate moves to another root   *)
(* and the server may drop the connection.  The library is lazy: it connects, *)
(* the first time and again, only for a call that finds the channel idle.     *)
(***************************************************************************)
EXTENDS Reloader

CONSTANTS
  NoRoot,   \* a connection without a verified server
  MaxMoves  \* how often the server's certificate moves or its connection drops

ASSUME ChannelAssumption == NoRoot \notin Certs /\ MaxMoves \in Nat

VARIABLES
  chan,    \* the connection: how far, captured roots, the verified server's root
  wanted,  \* a call came to the idle connection
  server,  \* the root the server's certificate chains to
  outrun,  \* history: material was published since the handshake began
  moves

channelVars == <<chan, wanted, server, outrun, moves>>
vars == <<reloaderVars, channelVars>>

Connections ==
  [step : {"idle", "shaking", "ready"}, trust : SUBSET Certs,
   root : Certs \cup {NoRoot}]
Idle == [step |-> "idle", trust |-> {}, root |-> NoRoot]

-----------------------------------------------------------------------------
\* Mutant: the roots of the system are taken.
AnyRoot == Authorities

\* clientCreds.config.
Trust == current.ca

\* A request of the process to the server behind the connection.  One that
\* finds it connecting or ready changes nothing here.
Call ==
  /\ chan.step = "idle" /\ ~wanted
  /\ wanted' = TRUE
  /\ UNCHANGED <<reloaderVars, chan, server, outrun, moves>>

\* The connecting goes on although the call that asked for it times out.
Dial ==
  /\ chan.step = "idle" /\ wanted
  /\ chan' = [step |-> "shaking", trust |-> Trust, root |-> NoRoot]
  /\ wanted' = FALSE /\ outrun' = FALSE
  /\ UNCHANGED <<reloaderVars, server, moves>>

\* Mutant: a connection keeps the bundle it was first dialled under.
HandshakeAgain ==
  /\ chan.step = "shaking" /\ server \in chan.trust
  /\ chan' = [chan EXCEPT !.step = "ready", !.root = server]
  /\ UNCHANGED <<reloaderVars, wanted, server, outrun, moves>>

\* The server's chain ends in a captured root, or the handshake fails.
Handshake ==
  /\ chan.step = "shaking"
  /\ chan' = IF server \in chan.trust
             THEN [chan EXCEPT !.step = "ready", !.root = server] ELSE Idle
  /\ UNCHANGED <<reloaderVars, wanted, server, outrun, moves>>

Moves == moves < MaxMoves /\ moves' = moves + 1

Drop ==
  /\ chan.step # "idle"
  /\ Moves
  /\ chan' = Idle
  /\ UNCHANGED <<reloaderVars, wanted, server, outrun>>

ServerMoves ==
  /\ Moves
  /\ server' \in Authorities \ {server}
  /\ UNCHANGED <<reloaderVars, chan, wanted, outrun>>

Reloads ==
  /\ ReloaderNext
  /\ outrun' = (outrun \/ (chan.step # "idle" /\ current' # current))
  /\ UNCHANGED <<chan, wanted, server, moves>>

Init ==
  /\ ReloaderInit
  /\ chan = Idle /\ wanted = FALSE /\ outrun = FALSE
  /\ server \in Authorities
  /\ moves = 0

Next == Reloads \/ Call \/ Dial \/ Handshake \/ Drop \/ ServerMoves

Spec == Init /\ [][Next]_vars

\* The library connects for a call and ends its handshakes; calls need not come.
FairSpec ==
  /\ Spec
  /\ WF_vars(Reload(poller) /\ UNCHANGED channelVars)
  /\ \A p \in Callers : WF_vars((Reloading(p) \/ Notify(p)) /\ Reloads)
  /\ SF_vars(PollerReturns /\ UNCHANGED channelVars)
  /\ WF_vars(StopReturns /\ UNCHANGED channelVars)
  /\ WF_vars(Dial) /\ WF_vars(Handshake)

-----------------------------------------------------------------------------
TypeOK ==
  /\ ReloaderTypeOK
  /\ chan \in Connections /\ wanted \in BOOLEAN
  /\ server \in Authorities
  /\ outrun \in BOOLEAN /\ moves \in 0..MaxMoves

(* A connection to a server of a retired root is one whose handshake began    *)
(* before the retirement: whenever a bundle was published, no later handshake *)
(* accepts what only an earlier one did (clientCreds.config).                 *)
ChannelTrust ==
  chan.step = "ready" /\ ~outrun => chan.root \in current.ca

\* No idle connection is left without a call for ever.
CallsComeAgain == []<>(chan.step # "idle" \/ wanted)

(* As long as calls come again, once a valid set that holds the server's root *)
(* stays mounted the process is connected again and again, whatever rotations *)
(* of both sides, torn reads and drops came before (clientCreds.config over    *)
(* Reloader.Reload).                                                          *)
Reconnects ==
  \A g \in {h \in Generations : Valid(Files(h))} :
    /\ CallsComeAgain
    /\ <>[](disk = g /\ stop = "no" /\ server \in Content[g].ca)
    => []<>(chan.step = "ready")
=============================================================================
