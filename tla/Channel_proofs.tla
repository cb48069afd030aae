---------------------------- MODULE Channel_proofs ----------------------------
(***************************************************************************)
(* Proofs about Channel, for any callers of Reload, mounted sets and moves   *)
(* of the server.                                                           *)
(***************************************************************************)
EXTENDS Channel, Reloader_proofs

-----------------------------------------------------------------------------
LEMMA IdleType == Idle \in Connections
BY DEF Idle, Connections

LEMMA TypeInit == Init => TypeOK
<1>1. ASSUME Init PROVE moves \in 0..MaxMoves
  BY <1>1, ChannelAssumption DEF Init
<1> QED
  BY <1>1, ReloaderInitType, IdleType DEF Init, TypeOK

LEMMA TypeNext == TypeOK /\ [Next]_vars => TypeOK'
<1> SUFFICES ASSUME TypeOK, [Next]_vars PROVE TypeOK'
  OBVIOUS
<1>1. ReloaderTypeOK'
  <2>1. [ReloaderNext]_reloaderVars
    BY DEF Next, vars, Reloads, Call, Dial, Handshake, Drop, ServerMoves
  <2> QED
    BY <2>1, ReloaderStepType DEF TypeOK
<1>2. current.ca \in SUBSET Certs
  BY DEF TypeOK, ReloaderTypeOK, Materials
<1>3. moves' \in 0..MaxMoves
  BY ChannelAssumption
  DEF Next, Reloads, Call, Dial, Handshake, Drop, ServerMoves, Moves, vars,
      channelVars, TypeOK
<1>4. CASE Reloads \/ ServerMoves \/ UNCHANGED vars
  BY <1>1, <1>3, <1>4 DEF Reloads, ServerMoves, vars, channelVars, TypeOK
<1>5. CASE Call
  BY <1>1, <1>3, <1>5 DEF Call, TypeOK
<1>6. CASE Dial
  <2>1. [step |-> "shaking", trust |-> Trust, root |-> NoRoot] \in Connections
    BY <1>2 DEF Trust, Connections
  <2> QED
    BY <1>1, <1>3, <1>6, <2>1 DEF Dial, TypeOK
<1>7. CASE Drop
  BY <1>1, <1>3, <1>7, IdleType DEF Drop, TypeOK
<1>8. CASE Handshake
  <2>1. server \in chan.trust =>
          [chan EXCEPT !.step = "ready", !.root = server] \in Connections
    BY DEF TypeOK, Connections
  <2> QED
    BY <1>1, <1>3, <1>8, <2>1, IdleType DEF Handshake, TypeOK
<1> QED
  BY <1>4, <1>5, <1>6, <1>7, <1>8 DEF Next

\* The connection keeps its type, whatever rotates on either side.
THEOREM TypeCorrect == Spec => []TypeOK
<1> QED
  BY TypeInit, TypeNext, PTL DEF Spec

\* A handshake holds the bundle in force until another one is published, and
\* ends in a root of the bundle it holds.
Captured ==
  /\ chan.step # "idle" /\ ~outrun => chan.trust = current.ca
  /\ chan.step = "ready" => chan.root \in chan.trust

LEMMA CapturedNext == TypeOK /\ Captured /\ [Next]_vars => Captured'
<1> SUFFICES ASSUME TypeOK, Captured, [Next]_vars PROVE Captured'
  OBVIOUS
<1>1. CASE Reloads \/ Call \/ ServerMoves \/ UNCHANGED vars
  BY <1>1 DEF Reloads, Call, ServerMoves, vars, reloaderVars, channelVars, Captured
<1>2. CASE Dial \/ Drop
  BY <1>2 DEF Dial, Trust, Drop, Idle, reloaderVars, Captured
<1>3. CASE Handshake
  BY <1>3 DEF Handshake, Idle, reloaderVars, Captured, TypeOK, Connections
<1> QED
  BY <1>1, <1>2, <1>3 DEF Next

\* A connection whose handshake began after the last publication is to a
\* server of a root in force: no handshake takes an older bundle
\* (clientCreds.config).
THEOREM HandshakesAreCurrent == Spec => []ChannelTrust
<1>1. Init => Captured
  BY DEF Init, Idle, Captured
<1>2. Captured => ChannelTrust
  BY DEF Captured, ChannelTrust
<1> QED
  BY <1>1, <1>2, TypeInit, TypeNext, CapturedNext, PTL DEF Spec

\* Channel implements the Reloader's specification, whose poller it stops: what
\* holds of the Reloader holds under a gRPC connection (clientCreds only reads
\* the material in force).
THEOREM ReloaderImplemented == Spec => ReloaderSpec
<1>1. Init => ReloaderInit
  BY DEF Init
<1>2. [Next]_vars => [ReloaderNext]_reloaderVars
  BY DEF Next, vars, Reloads, Call, Dial, Handshake, Drop, ServerMoves
<1> QED
  BY <1>1, <1>2, PTL DEF Spec, ReloaderSpec
=============================================================================
