---------------------------- MODULE Rotation_proofs ----------------------------
(***************************************************************************)
(* Proofs about Rotation: the types, and what a retired root can leave       *)
(* behind, for any number of connections, calls, mounted sets and           *)
(* replacements, when the poller alone reloads.                             *)
(***************************************************************************)
EXTENDS Rotation, Reloader_proofs

-----------------------------------------------------------------------------
(***************************************************************************)
(* The connections.                                                         *)
(***************************************************************************)
\* Every step is one of the Reloader's, or leaves it alone.
LEMMA ReloaderPart ==
  ASSUME [Next]_vars
  PROVE  [ReloaderNext]_reloaderVars
BY
DEF Next, vars, ReloaderNext, Reloading, World, NotifyConns, Serving, Calling,
    HandshakeStarts, HandshakeEnds, ConnCloses, CallStarts, CallEnds,
    DialStarts, DialEnds, DialFails, IdleCloses

LEMMA TrustType ==
  ASSUME ReloaderTypeOK
  PROVE  current.ca \in SUBSET Certs
BY DEF ReloaderTypeOK, Materials

\* Handing a connection that no call uses keeps the types and who owns what.
LEMMA HandType ==
  ASSUME PoolAssumption, ConnTypeOK, NEW h \in Pool,
         NEW c \in Connection({"free", "dialing", "idle", "busy"}),
         NEW calls \in [Calls -> [step : {"none", "waiting", "sent"},
                                  via : Pool \cup {NoConn}]],
         \A q \in Calls : calls[q].via # h,
         \A q \in Calls : calls[q].step # "sent" => calls[q].via = NoConn,
         \A q \in Calls :
           calls[q].step = "sent" =>
             /\ calls[q].via \in Pool /\ pool[calls[q].via].step = "busy"
             /\ \A o \in Calls \ {q} : calls[o].via # calls[q].via,
         Hand(h, c, calls), UNCHANGED <<conn, closing>>
  PROVE  ConnTypeOK' /\ CallsOwn' /\ CallsFree'
<1>1. CASE \E q \in Calls :
             /\ calls[q].step = "waiting"
             /\ call' = [calls EXCEPT ![q] = [step |-> "sent", via |-> h]]
             /\ pool' = [pool EXCEPT ![h] = [c EXCEPT !.step = "busy"]]
             /\ UNCHANGED missed
  <2>1. PICK q \in Calls :
             /\ calls[q].step = "waiting"
             /\ call' = [calls EXCEPT ![q] = [step |-> "sent", via |-> h]]
             /\ pool' = [pool EXCEPT ![h] = [c EXCEPT !.step = "busy"]]
             /\ UNCHANGED missed
    BY <1>1
  <2>2. [c EXCEPT !.step = "busy"] \in Connection({"free", "dialing", "idle", "busy"})
    BY DEF Connection
  <2>3. ConnTypeOK'
    BY <2>1, <2>2 DEF ConnTypeOK
  <2>4. call'[q] = [step |-> "sent", via |-> h]
        /\ \A o \in Calls \ {q} : call'[o] = calls[o]
    BY <2>1
  <2>5. /\ pool'[h].step = "busy"
        /\ \A g \in Pool \ {h} : pool'[g] = pool[g]
    BY <2>1, <2>2 DEF ConnTypeOK, Connection
  <2>6. CallsFree'
    BY <2>4 DEF CallsFree
  <2>7. CallsOwn'
    BY <2>4, <2>5 DEF CallsOwn
  <2> QED
    BY <2>3, <2>6, <2>7
<1>2. CASE /\ call' = calls
           /\ \E d \in Connection({"free", "dialing", "idle", "busy"}) :
                pool' = [pool EXCEPT ![h] = d]
           /\ missed' \in {missed, missed \ {h}}
  <2>1. ConnTypeOK'
    BY <1>2 DEF ConnTypeOK
  <2>2. \A g \in Pool \ {h} : pool'[g] = pool[g]
    BY <1>2 DEF ConnTypeOK
  <2> QED
    BY <1>2, <2>1, <2>2 DEF CallsOwn, CallsFree
<1>3. Free \in Connection({"free", "dialing", "idle", "busy"})
      /\ [c EXCEPT !.step = "idle"] \in Connection({"free", "dialing", "idle", "busy"})
  BY DEF Free, Connection
<1>4. \/ \E q \in {o \in Calls : calls[o].step = "waiting"} :
           /\ call' = [calls EXCEPT ![q] = [step |-> "sent", via |-> h]]
           /\ pool' = [pool EXCEPT ![h] = [c EXCEPT !.step = "busy"]]
           /\ UNCHANGED missed
      \/ /\ call' = calls
         /\ pool' = [pool EXCEPT ![h] = [c EXCEPT !.step = "idle"]]
         /\ UNCHANGED missed
      \/ /\ call' = calls
         /\ pool' = [pool EXCEPT ![h] = Free]
         /\ missed' = missed \ {h}
  BY DEF Hand
<1> QED
  BY <1>1, <1>2, <1>3, <1>4

LEMMA FreeType ==
  /\ Free \in Connection({"free", "shaking", "open"})
  /\ Free \in Connection({"free", "dialing", "idle", "busy"})
BY DEF Free, Connection

\* A step that frees connections no call uses, and touches no call.
LEMMA FreesIdle ==
  ASSUME TypeOK, UNCHANGED <<conn, call>>, closing' \in BOOLEAN,
         missed' \subseteq Conns \cup Pool,
         \A h \in Pool :
           \/ pool'[h] = pool[h]
           \/ pool[h].step # "busy" /\ pool'[h] = Free,
         pool' = [h \in Pool |-> pool'[h]]
  PROVE  ConnTypeOK' /\ CallsOwn' /\ CallsFree'
<1>1. pool' \in [Pool -> Connection({"free", "dialing", "idle", "busy"})]
  BY FreeType DEF TypeOK, ConnTypeOK
<1> QED
  BY <1>1 DEF TypeOK, ConnTypeOK, CallsOwn, CallsFree

LEMMA TypeStep ==
  ASSUME TypeOK, [Next]_vars
  PROVE  TypeOK'
<1> USE DEF TypeOK
<1>1. ReloaderTypeOK'
  BY ReloaderPart, ReloaderStepType
<1>2. CASE UNCHANGED connVars
  BY <1>1, <1>2 DEF connVars, ConnTypeOK, CallsOwn, CallsFree
<1>3. ASSUME NEW c \in Conns,
             HandshakeStarts(c) \/ HandshakeEnds(c) \/ ConnCloses(c)
      PROVE  TypeOK'
  <2>1. conn' \in [Conns -> Connection({"free", "shaking", "open"})]
    <3>1. CASE HandshakeStarts(c)
      <4>1. [step |-> "shaking", trust |-> current.ca, root |-> NoRoot]
              \in Connection({"free", "shaking", "open"})
        BY TrustType DEF Connection
      <4> QED
        BY <3>1, <4>1 DEF HandshakeStarts, ConnTypeOK
    <3>2. CASE HandshakeEnds(c)
      <4>1. PICK r \in conn[c].trust :
              conn' = [conn EXCEPT ![c].step = "open", ![c].root = r]
        BY <3>2 DEF HandshakeEnds
      <4>2. conn[c] \in Connection({"free", "shaking", "open"})
        BY DEF ConnTypeOK
      <4>3. [conn[c] EXCEPT !.step = "open", !.root = r]
              \in Connection({"free", "shaking", "open"})
        BY <4>1, <4>2 DEF Connection
      <4>4. conn' = [conn EXCEPT ![c] = [conn[c] EXCEPT !.step = "open", !.root = r]]
        BY <4>1
      <4> QED
        BY <4>3, <4>4 DEF ConnTypeOK
    <3>3. CASE ConnCloses(c)
      BY <3>3, FreeType DEF ConnCloses, ConnTypeOK
    <3> QED
      BY <1>3, <3>1, <3>2, <3>3
  <2>2. UNCHANGED <<pool, call, closing>> /\ missed' \subseteq Conns \cup Pool
    BY <1>3 DEF HandshakeStarts, HandshakeEnds, ConnCloses, ConnTypeOK
  <2> QED
    BY <1>1, <2>1, <2>2 DEF ConnTypeOK, CallsOwn, CallsFree
<1>4. ASSUME NEW q \in Calls, CallStarts(q)
      PROVE  TypeOK'
  <2>1. CASE call' = [call EXCEPT ![q].step = "waiting"] /\ UNCHANGED pool
    <3>1. call'[q].step = "waiting" /\ call'[q].via = call[q].via
      BY <1>4, <2>1 DEF ConnTypeOK
    <3>2. \A o \in Calls \ {q} : call'[o] = call[o]
      BY <2>1 DEF ConnTypeOK
    <3>3. call[q].via = NoConn
      BY <1>4 DEF CallStarts, CallsFree
    <3>4. ConnTypeOK'
      <4>1. [call[q] EXCEPT !.step = "waiting"]
              \in [step : {"none", "waiting", "sent"}, via : Pool \cup {NoConn}]
        BY DEF ConnTypeOK
      <4>2. call' = [call EXCEPT ![q] = [call[q] EXCEPT !.step = "waiting"]]
        BY <2>1
      <4>3. closing' \in BOOLEAN /\ UNCHANGED <<conn, pool, missed>>
        BY <1>4, <2>1 DEF CallStarts
      <4> QED
        BY <4>1, <4>2, <4>3 DEF ConnTypeOK
    <3> QED
      BY <1>1, <2>1, <3>1, <3>2, <3>3, <3>4, PoolAssumption
      DEF CallsOwn, CallsFree
  <2>2. CASE \E h \in Idle :
               /\ call' = [call EXCEPT ![q] = [step |-> "sent", via |-> h]]
               /\ pool' = [pool EXCEPT ![h].step = "busy"]
    <3>1. PICK h \in Pool :
               /\ pool[h].step = "idle"
               /\ call' = [call EXCEPT ![q] = [step |-> "sent", via |-> h]]
               /\ pool' = [pool EXCEPT ![h].step = "busy"]
      BY <2>2 DEF Idle
    <3>2. call'[q] = [step |-> "sent", via |-> h]
          /\ \A o \in Calls \ {q} : call'[o] = call[o]
      BY <3>1 DEF ConnTypeOK
    <3>3. pool'[h].step = "busy" /\ \A g \in Pool \ {h} : pool'[g] = pool[g]
      BY <3>1 DEF ConnTypeOK, Connection
    <3>4. \A o \in Calls : call[o].via # h
      BY <3>1, PoolAssumption DEF CallsOwn, CallsFree, ConnTypeOK
    <3>5. ConnTypeOK'
      <4>1. [pool[h] EXCEPT !.step = "busy"]
              \in Connection({"free", "dialing", "idle", "busy"})
        BY DEF ConnTypeOK, Connection
      <4>2. pool' = [pool EXCEPT ![h] = [pool[h] EXCEPT !.step = "busy"]]
        BY <3>1
      <4>3. [step |-> "sent", via |-> h]
              \in [step : {"none", "waiting", "sent"}, via : Pool \cup {NoConn}]
        OBVIOUS
      <4>4. closing' \in BOOLEAN /\ UNCHANGED <<conn, missed>>
        BY <1>4 DEF CallStarts
      <4> QED
        BY <3>1, <4>1, <4>2, <4>3, <4>4 DEF ConnTypeOK
    <3> QED
      BY <1>1, <3>2, <3>3, <3>4, <3>5 DEF CallsOwn, CallsFree
  <2> QED
    BY <1>4, <2>1, <2>2 DEF CallStarts
<1>5. ASSUME NEW h \in Pool, DialStarts(h)
      PROVE  TypeOK'
  <2>1. [step |-> "dialing", trust |-> current.ca, root |-> NoRoot]
          \in Connection({"free", "dialing", "idle", "busy"})
    BY TrustType DEF Connection
  <2>2. ConnTypeOK'
    BY <1>5, <2>1 DEF DialStarts, ConnTypeOK
  <2>3. \A g \in Pool \ {h} : pool'[g] = pool[g]
    BY <1>5 DEF DialStarts, ConnTypeOK
  <2> QED
    BY <1>1, <1>5, <2>2, <2>3 DEF DialStarts, CallsOwn, CallsFree
<1>6. ASSUME NEW h \in Pool, DialEnds(h)
      PROVE  TypeOK'
  <2>1. PICK r \in pool[h].trust : Hand(h, [pool[h] EXCEPT !.root = r], call)
    BY <1>6 DEF DialEnds
  <2>2. [pool[h] EXCEPT !.root = r] \in Connection({"free", "dialing", "idle", "busy"})
    BY <2>1 DEF ConnTypeOK, Connection
  <2>3. \A q \in Calls : call[q].via # h
    BY <1>6, PoolAssumption DEF DialEnds, CallsOwn, CallsFree, ConnTypeOK
  <2>4. UNCHANGED <<conn, closing>>
    BY <1>6 DEF DialEnds
  <2> QED
    BY <1>1, <2>1, <2>2, <2>3, <2>4, HandType, PoolAssumption
    DEF ConnTypeOK, CallsOwn, CallsFree
<1>7. ASSUME NEW h \in Pool, DialFails(h)
      PROVE  TypeOK'
  <2>1. \A g \in Pool \ {h} : pool'[g] = pool[g]
    BY <1>7 DEF DialFails, ConnTypeOK
  <2>2. \A q \in Calls : call'[q].step = "sent" => call'[q] = call[q]
    BY <1>7 DEF DialFails, ConnTypeOK
  <2>3. \A q \in Calls : call'[q].via = call[q].via
    BY <1>7 DEF DialFails, ConnTypeOK
  <2>4. \A q \in Calls : call'[q].step # "sent" => call[q].step # "sent"
    BY <1>7 DEF DialFails, Waiting, ConnTypeOK
  <2>5. ConnTypeOK'
    BY <1>7, FreeType DEF DialFails, ConnTypeOK
  <2> QED
    BY <1>1, <1>7, <2>1, <2>2, <2>3, <2>4, <2>5
    DEF DialFails, CallsOwn, CallsFree
<1>8. ASSUME NEW q \in Calls, CallEnds(q)
      PROVE  TypeOK'
  <2> DEFINE h == call[q].via
             calls == [call EXCEPT ![q] = [step |-> "none", via |-> NoConn]]
  <2>1. h \in Pool /\ pool[h].step = "busy"
    BY <1>8 DEF CallEnds, CallsOwn
  <2>2. calls \in [Calls -> [step : {"none", "waiting", "sent"},
                             via : Pool \cup {NoConn}]]
    BY DEF ConnTypeOK
  <2>3. calls[q] = [step |-> "none", via |-> NoConn]
        /\ \A o \in Calls \ {q} : calls[o] = call[o]
    BY DEF ConnTypeOK
  <2>4. \A o \in Calls : calls[o].via # h
    BY <1>8, <2>1, <2>3, PoolAssumption DEF CallEnds, CallsOwn
  <2>5. \A o \in Calls : calls[o].step # "sent" => calls[o].via = NoConn
    BY <2>3 DEF CallsFree
  <2>6. \A o \in Calls :
          calls[o].step = "sent" =>
            /\ calls[o].via \in Pool /\ pool[calls[o].via].step = "busy"
            /\ \A e \in Calls \ {o} : calls[e].via # calls[o].via
    BY <2>3, PoolAssumption DEF CallsOwn
  <2>7. UNCHANGED <<conn, closing>>
    BY <1>8 DEF CallEnds
  <2>8. CASE Hand(h, pool[h], calls)
    <3>1. pool[h] \in Connection({"free", "dialing", "idle", "busy"})
      BY <2>1 DEF ConnTypeOK
    <3> HIDE DEF h, calls
    <3> QED
      BY <1>1, <2>1, <2>2, <2>4, <2>5, <2>6, <2>7, <2>8, <3>1, HandType,
         PoolAssumption
  <2>9. CASE /\ call' = calls
             /\ pool' = [pool EXCEPT ![h] = Free]
             /\ missed' = missed \ {h}
    <3> HIDE DEF h, calls
    <3>1. ConnTypeOK'
      BY <2>1, <2>2, <2>7, <2>9, FreeType DEF ConnTypeOK
    <3>2. \A g \in Pool \ {h} : pool'[g] = pool[g]
      BY <2>9 DEF ConnTypeOK
    <3> QED
      BY <1>1, <2>4, <2>5, <2>6, <2>9, <3>1, <3>2 DEF CallsOwn, CallsFree
  <2> QED
    BY <1>8, <2>8, <2>9 DEF CallEnds
<1>9. ASSUME NEW h \in Pool, IdleCloses(h)
      PROVE  TypeOK'
  <2>1. /\ pool[h].step = "idle" /\ pool' = [pool EXCEPT ![h] = Free]
        /\ missed' \subseteq missed /\ UNCHANGED <<conn, call, closing>>
    BY <1>9 DEF IdleCloses, Idle
  <2>2. \A g \in Pool :
          \/ pool'[g] = pool[g]
          \/ pool[g].step # "busy" /\ pool'[g] = Free
    BY <2>1 DEF ConnTypeOK
  <2>3. pool' = [g \in Pool |-> pool'[g]]
    BY <2>1 DEF ConnTypeOK
  <2> QED
    BY <1>1, <2>1, <2>2, <2>3, FreesIdle DEF ConnTypeOK
<1>10. ASSUME NEW p \in Callers, NotifyConns(p)
       PROVE  TypeOK'
  <2>1. conn' \in [Conns -> Connection({"free", "shaking", "open"})]
    BY <1>10, FreeType DEF NotifyConns, CloseRetired, ConnTypeOK
  <2>2. missed' \subseteq Conns \cup Pool /\ closing' \in BOOLEAN
    BY <1>10
    DEF NotifyConns, CloseIdle, Shaking, Engaged, ConnTypeOK
  <2>3. \A h \in Pool :
          \/ pool'[h] = pool[h]
          \/ pool[h].step # "busy" /\ pool'[h] = Free
    BY <1>10 DEF NotifyConns, CloseIdle, Idle, ConnTypeOK
  <2>4. pool' \in [Pool -> Connection({"free", "dialing", "idle", "busy"})]
    <3>1. pool' = [h \in Pool |-> pool'[h]]
      BY <1>10 DEF NotifyConns, CloseIdle, ConnTypeOK
    <3> QED
      BY <2>3, <3>1, FreeType DEF ConnTypeOK
  <2>5. call' = call
    BY <1>10 DEF NotifyConns
  <2> QED
    BY <1>1, <2>1, <2>2, <2>3, <2>4, <2>5 DEF ConnTypeOK, CallsOwn, CallsFree
<1>11. CASE UNCHANGED vars
  BY <1>2, <1>11 DEF vars
<1> QED
  BY <1>2, <1>3, <1>4, <1>5, <1>6, <1>7, <1>8, <1>9, <1>10, <1>11
  DEF Next, Serving, Calling

LEMMA TypeInit == Init => TypeOK
<1> SUFFICES ASSUME Init
             PROVE  TypeOK
  OBVIOUS
<1>1. ReloaderTypeOK
  BY ReloaderInitType DEF Init
<1>2. ConnTypeOK
  BY FreeType DEF Init, ConnTypeOK
<1>3. CallsOwn /\ CallsFree
  BY DEF Init, CallsOwn, CallsFree
<1> QED
  BY <1>1, <1>2, <1>3 DEF TypeOK

\* The Reloader and the connections keep their types, and no connection of
\* the HTTP client is ever used by two calls.
THEOREM TypeCorrect == Spec => []TypeOK
<1> QED
  BY TypeInit, TypeStep, PTL DEF Spec

-----------------------------------------------------------------------------
(***************************************************************************)
(* What a retirement leaves behind.  ServerTrust and PoolTrust speak of the *)
(* roots that verified; the strengthening adds the roots a handshake in     *)
(* progress has captured and, for the pool, what holds between a publication *)
(* and its callbacks: whatever it keeps was trusted by the previous material *)
(* or is by the new one.                                                    *)
(***************************************************************************)
\* The poller is the one caller, so the material it compares with and the one
\* it announces are the ones in force.
ReloadInHand ==
  /\ reload[poller].step \in {"digest", "load"} => reload[poller].cur = current
  /\ reload[poller].step = "notify" => current = Material(reload[poller].read)

ServerSafe ==
  Announced =>
    \A c \in Conns \ missed :
      /\ conn[c].step = "open" => conn[c].root \in current.ca
      /\ conn[c].step = "shaking" => conn[c].trust \subseteq current.ca

Trusted ==
  current.ca \cup (IF Announced THEN {} ELSE reload[poller].cur.ca)

PoolSafe ==
  \A h \in Pool \ missed :
    /\ pool[h].step \in {"idle", "busy"} => pool[h].root \in Trusted
    /\ pool[h].step = "dialing" => pool[h].trust \subseteq Trusted

TrustInv == TypeOK /\ ReloadInHand /\ ServerSafe /\ PoolSafe

\* A step of the Reloader that publishes nothing keeps what is trusted.
LEMMA QuietReload ==
  ASSUME Callers = {poller}, TrustInv, TypeOK', UNCHANGED connVars,
         current' = current, ReloadInHand', Announced, Announced'
  PROVE  TrustInv'
BY DEF TrustInv, ServerSafe, PoolSafe, Trusted, connVars

LEMMA ReloadTrust ==
  ASSUME Callers = {poller}, TrustInv, TypeOK', UNCHANGED connVars,
         Reload(poller) \/ Reloading(poller)
  PROVE  TrustInv'
<1>1. Announced
  BY DEF Announced, Reload, Reloading, Read, ReadFails, Unchanged, Changed,
         Rejected, Publish, DigestRead, Loaded
<1>2. CASE \/ Reload(poller) \/ Read(poller) \/ ReadFails(poller)
           \/ Unchanged(poller) \/ Changed(poller) \/ Rejected(poller)
  <2>1. current' = current
    BY <1>2 DEF Reload, Read, ReadFails, Unchanged, Changed, Rejected
  <2>2. reload'[poller].step \in {"idle", "digest", "load"}
    BY <1>2
    DEF Reload, Read, ReadFails, Unchanged, Changed, Rejected, DigestRead,
        Loaded, Step, TrustInv, TypeOK, ReloaderTypeOK, ReloadCall
  <2>3. reload'[poller].step \in {"digest", "load"} =>
          reload'[poller].cur = current
    BY <1>2
    DEF Reload, Read, ReadFails, Unchanged, Changed, Rejected, DigestRead,
        Loaded, Step, TrustInv, ReloadInHand, TypeOK, ReloaderTypeOK, ReloadCall
  <2>4. Announced' /\ ReloadInHand'
    BY <2>1, <2>2, <2>3 DEF Announced, ReloadInHand
  <2> QED
    BY <1>1, <2>1, <2>4, QuietReload
<1>3. CASE Publish(poller)
  <2>1. /\ reload'[poller].step = "notify"
        /\ reload'[poller].read = reload[poller].read
        /\ reload'[poller].cur = current
        /\ current' = Material(reload[poller].read)
    BY <1>3
    DEF Publish, Loaded, TrustInv, ReloadInHand, TypeOK, ReloaderTypeOK, ReloadCall
  <2>2. ~Announced'
    BY <2>1 DEF Announced
  <2>3. ReloadInHand'
    BY <2>1 DEF ReloadInHand, Material
  <2>4. Trusted \subseteq Trusted'
    BY <1>1, <2>1, <2>2 DEF Trusted
  <2> QED
    BY <2>2, <2>3, <2>4 DEF TrustInv, ServerSafe, PoolSafe, connVars
<1> QED
  BY <1>2, <1>3 DEF Reloading

LEMMA NotifyTrust ==
  ASSUME Callers = {poller}, TrustInv, TypeOK', NotifyConns(poller)
  PROVE  TrustInv'
<1> DEFINE m == Material(reload[poller].read)
<1>1. /\ reload[poller].step = "notify" /\ current = m /\ current' = current
      /\ ~Announced
  BY DEF NotifyConns, Notify, TrustInv, ReloadInHand, Announced
<1>2. reload'[poller].step = "idle"
  BY DEF NotifyConns, Notify, Step, TrustInv, TypeOK, ReloaderTypeOK, ReloadCall
<1>3. Announced' /\ ReloadInHand'
  BY <1>2 DEF Announced, ReloadInHand
<1>4. ServerSafe'
  <2>1. \A c \in Conns :
          conn'[c] = IF conn[c].step = "open" /\ conn[c].root \notin current.ca
                     THEN Free ELSE conn[c]
    BY <1>1 DEF NotifyConns, CloseRetired
  <2>2. Shaking \subseteq missed'
    BY DEF NotifyConns
  <2> QED
    BY <1>1, <2>1, <2>2 DEF ServerSafe, Shaking, Free
<1>5. PoolSafe'
  <2>1. Trusted' = current.ca
    BY <1>1, <1>3 DEF Trusted
  <2>2. CASE RetiredRoots(reload[poller].cur, m) # {}
    <3>1. Engaged \subseteq missed'
      BY <2>2 DEF NotifyConns
    <3>2. \A h \in Pool : pool'[h] = IF h \in Idle THEN Free ELSE pool[h]
      BY <2>2 DEF NotifyConns, CloseIdle
    <3> QED
      BY <3>1, <3>2 DEF PoolSafe, Engaged, Idle, Free
  <2>3. CASE RetiredRoots(reload[poller].cur, m) = {}
    <3>1. pool' = pool /\ missed \cap Pool \subseteq missed'
      BY <2>3 DEF NotifyConns
    <3>2. Trusted \subseteq current.ca
      BY <1>1, <2>3 DEF Trusted, RetiredRoots
    <3> QED
      BY <2>1, <3>1, <3>2 DEF TrustInv, PoolSafe
  <2> QED
    BY <2>2, <2>3
<1> QED
  BY <1>3, <1>4, <1>5 DEF TrustInv

\* Nothing of the Reloader moves in a step of a connection.
LEMMA ConnStep ==
  ASSUME TrustInv, TypeOK', UNCHANGED reloaderVars,
         Conns \ missed' \subseteq {c \in Conns :
           c \notin missed \/ conn'[c].step = "free"},
         \A c \in Conns :
           \/ conn'[c] = conn[c]
           \/ conn'[c].step = "free"
           \/ conn'[c].step = "shaking" /\ conn'[c].trust = current.ca
           \/ /\ conn[c].step = "shaking" /\ conn'[c].step = "open"
              /\ conn'[c].root \in conn[c].trust,
         Pool \ missed' \subseteq {h \in Pool :
           h \notin missed \/ pool'[h].step = "free"},
         \A h \in Pool :
           \/ pool'[h] = pool[h]
           \/ pool'[h].step = "free"
           \/ pool'[h].step = "dialing" /\ pool'[h].trust = current.ca
           \/ /\ pool[h].step = "dialing" /\ pool'[h].step \in {"idle", "busy"}
              /\ pool'[h].root \in pool[h].trust
           \/ /\ pool[h].step \in {"idle", "busy"}
              /\ pool'[h].step \in {"idle", "busy"}
              /\ pool'[h].root = pool[h].root
  PROVE  TrustInv'
<1>1. Announced' = Announced /\ current' = current /\ reload' = reload
  BY DEF reloaderVars, Announced
<1>2. Trusted' = Trusted /\ current.ca \subseteq Trusted
  BY <1>1 DEF Trusted
<1>3. ReloadInHand'
  BY <1>1 DEF TrustInv, ReloadInHand, Material
<1>4. ServerSafe'
  BY <1>1 DEF TrustInv, ServerSafe
<1>5. PoolSafe'
  BY <1>2 DEF TrustInv, PoolSafe
<1> QED
  BY <1>3, <1>4, <1>5 DEF TrustInv

LEMMA ServingTrust ==
  ASSUME TrustInv, TypeOK', Serving
  PROVE  TrustInv'
<1> USE DEF TrustInv, TypeOK, ConnTypeOK, Connection
<1>1. PICK c \in Conns : HandshakeStarts(c) \/ HandshakeEnds(c) \/ ConnCloses(c)
  BY DEF Serving
<1>2. /\ UNCHANGED <<reloaderVars, pool>>
      /\ \A d \in Conns \ {c} : conn'[d] = conn[d]
  BY <1>1 DEF HandshakeStarts, HandshakeEnds, ConnCloses
<1>3. CASE HandshakeStarts(c)
  <2>1. conn'[c].step = "shaking" /\ conn'[c].trust = current.ca /\ missed' = missed
    BY <1>3 DEF HandshakeStarts
  <2> QED
    BY <1>2, <2>1, ConnStep
<1>4. CASE HandshakeEnds(c)
  <2>1. /\ conn[c].step = "shaking" /\ conn'[c].step = "open"
        /\ conn'[c].root \in conn[c].trust
        /\ missed' = missed
    BY <1>4 DEF HandshakeEnds
  <2> QED
    BY <1>2, <2>1, ConnStep
<1>5. CASE ConnCloses(c)
  <2>1. conn'[c].step = "free" /\ missed' = missed \ {c}
    BY <1>5 DEF ConnCloses, Free
  <2> QED
    BY <1>2, <2>1, ConnStep, PoolAssumption
<1> QED
  BY <1>1, <1>3, <1>4, <1>5

\* A connection handed on keeps its root, is closed, or was just dialled.
LEMMA HandTrust ==
  ASSUME TrustInv, TypeOK', UNCHANGED <<reloaderVars, conn>>,
         NEW h \in Pool, NEW c, NEW calls, Hand(h, c, calls),
         c \in Connection({"free", "dialing", "idle", "busy"}),
         \/ pool[h].step = "dialing" /\ c.root \in pool[h].trust
         \/ pool[h].step \in {"idle", "busy"} /\ c.root = pool[h].root
  PROVE  TrustInv'
<1>1. /\ \A g \in Pool \ {h} : pool'[g] = pool[g]
      /\ \/ /\ pool'[h].step \in {"idle", "busy"} /\ pool'[h].root = c.root
            /\ missed' = missed
         \/ pool'[h].step = "free" /\ missed' = missed \ {h}
  BY DEF Hand, Free, TrustInv, TypeOK, ConnTypeOK, Connection
<1> QED
  BY <1>1, ConnStep, PoolAssumption

LEMMA CallingTrust ==
  ASSUME TrustInv, TypeOK', Calling
  PROVE  TrustInv'
<1> USE DEF TrustInv, TypeOK
<1>1. ASSUME NEW q \in Calls, CallStarts(q)
      PROVE  TrustInv'
  <2>1. \A g \in Pool :
          \/ pool'[g] = pool[g]
          \/ /\ pool[g].step = "idle" /\ pool'[g].step = "busy"
             /\ pool'[g].root = pool[g].root
    BY <1>1 DEF CallStarts, Idle, ConnTypeOK, Connection
  <2>2. UNCHANGED <<reloaderVars, conn, missed>>
    BY <1>1 DEF CallStarts
  <2> QED
    BY <2>1, <2>2, ConnStep
<1>2. ASSUME NEW h \in Pool, DialStarts(h)
      PROVE  TrustInv'
  <2>1. /\ pool'[h].step = "dialing" /\ pool'[h].trust = current.ca
        /\ \A g \in Pool \ {h} : pool'[g] = pool[g]
        /\ UNCHANGED <<reloaderVars, conn, missed>>
    BY <1>2 DEF DialStarts, ConnTypeOK
  <2> QED
    BY <2>1, ConnStep
<1>3. ASSUME NEW h \in Pool, DialEnds(h)
      PROVE  TrustInv'
  <2>1. PICK r \in pool[h].trust : Hand(h, [pool[h] EXCEPT !.root = r], call)
    BY <1>3 DEF DialEnds
  <2>2. /\ [pool[h] EXCEPT !.root = r] \in Connection({"free", "dialing", "idle", "busy"})
        /\ [pool[h] EXCEPT !.root = r].root = r
    BY <2>1 DEF ConnTypeOK, Connection
  <2>3. pool[h].step = "dialing" /\ UNCHANGED <<reloaderVars, conn>>
    BY <1>3 DEF DialEnds
  <2> QED
    BY <2>1, <2>2, <2>3, HandTrust
<1>4. ASSUME NEW h \in Pool, DialFails(h) \/ IdleCloses(h)
      PROVE  TrustInv'
  <2>1. /\ pool'[h].step = "free" /\ missed' = missed \ {h}
        /\ \A g \in Pool \ {h} : pool'[g] = pool[g]
        /\ UNCHANGED <<reloaderVars, conn>>
    BY <1>4 DEF DialFails, IdleCloses, Free, ConnTypeOK
  <2> QED
    BY <2>1, ConnStep, PoolAssumption
<1>5. ASSUME NEW q \in Calls, CallEnds(q)
      PROVE  TrustInv'
  <2>1. call[q].via \in Pool /\ pool[call[q].via].step = "busy"
    BY <1>5 DEF CallEnds, CallsOwn
  <2>2. pool[call[q].via] \in Connection({"free", "dialing", "idle", "busy"})
    BY <2>1 DEF ConnTypeOK
  <2>3. UNCHANGED <<reloaderVars, conn>>
    BY <1>5 DEF CallEnds
  <2>4. CASE \E calls : Hand(call[q].via, pool[call[q].via], calls)
    BY <2>1, <2>2, <2>3, <2>4, HandTrust
  <2>5. CASE /\ pool' = [pool EXCEPT ![call[q].via] = Free]
             /\ missed' = missed \ {call[q].via}
    <3>1. /\ pool'[call[q].via].step = "free"
          /\ \A g \in Pool \ {call[q].via} : pool'[g] = pool[g]
      BY <2>1, <2>5 DEF Free, ConnTypeOK
    <3> QED
      BY <2>1, <2>3, <2>5, <3>1, ConnStep, PoolAssumption
  <2> QED
    BY <1>5, <2>4, <2>5 DEF CallEnds
<1> QED
  BY <1>1, <1>2, <1>3, <1>4, <1>5 DEF Calling

LEMMA TrustStep ==
  ASSUME Callers = {poller}, TrustInv, [Next]_vars
  PROVE  TrustInv'
<1>1. TypeOK'
  BY TypeStep DEF TrustInv
<1>2. CASE (Reload(poller) \/ Reloading(poller)) /\ UNCHANGED connVars
  BY <1>1, <1>2, ReloadTrust
<1>3. CASE NotifyConns(poller)
  BY <1>1, <1>3, NotifyTrust
<1>4. CASE World /\ UNCHANGED connVars
  BY <1>1, <1>4
  DEF World, Cancel, PollerReturns, StopReturns, Swap, TrustInv, ReloadInHand,
      Material, ServerSafe, PoolSafe, Trusted, Announced, connVars
<1>5. CASE Serving \/ Calling
  BY <1>1, <1>5, ServingTrust, CallingTrust
<1>6. CASE UNCHANGED vars
  BY <1>1, <1>6
  DEF vars, reloaderVars, connVars, TrustInv, ReloadInHand, Material,
      ServerSafe, PoolSafe, Trusted, Announced
<1> QED
  BY <1>2, <1>3, <1>4, <1>5, <1>6 DEF Next

LEMMA TrustInit ==
  ASSUME Callers = {poller}, Init
  PROVE  TrustInv
<1>1. reload[poller].step = "idle"
  BY DEF Init, ReloaderInit
<1>2. /\ \A c \in Conns : conn[c].step = "free"
      /\ \A h \in Pool : pool[h].step = "free"
  BY DEF Init, Free
<1> QED
  BY <1>1, <1>2, TypeInit DEF TrustInv, ReloadInHand, ServerSafe, PoolSafe

\* Once a retirement is announced, no server connection verified by a retired
\* root is open, except those the announcement met in their handshake.
THEOREM RetiredServerConnections ==
  ASSUME Callers = {poller}
  PROVE  Spec => []ServerTrust
<1>1. Init => TrustInv
  BY TrustInit
<1>2. TrustInv /\ [Next]_vars => TrustInv'
  BY TrustStep
<1>3. TrustInv => ServerTrust
  BY DEF TrustInv, ServerSafe, ServerTrust
<1> QED
  BY <1>1, <1>2, <1>3, PTL DEF Spec

\* Once a retirement is announced, the HTTP client neither keeps nor uses a
\* connection of a retired root, except those the announcement met in use or
\* being dialled.
THEOREM RetiredPoolConnections ==
  ASSUME Callers = {poller}
  PROVE  Spec => []PoolTrust
<1>1. Init => TrustInv
  BY TrustInit
<1>2. TrustInv /\ [Next]_vars => TrustInv'
  BY TrustStep
<1>3. TrustInv => PoolTrust
  BY DEF TrustInv, PoolSafe, Trusted, PoolTrust
<1> QED
  BY <1>1, <1>2, <1>3, PTL DEF Spec
\* An announcement closes no server connection whose root is still trusted.
THEOREM TrustedConnectionsSurvive ==
  ASSUME Callers = {poller}
  PROVE  Spec => OnlyRetiredClosed
<1>1. Init => TrustInv
  BY TrustInit
<1>2. TrustInv /\ [Next]_vars => TrustInv'
  BY TrustStep
<1>3. ASSUME TrustInv, [Next]_vars, ~Announced, Announced', NEW c \in Conns,
             conn[c].root \in current.ca
      PROVE  conn'[c] = conn[c]
  <2>1. reload[poller].step = "notify" /\ reload' # reload
    BY <1>3 DEF Announced
  <2>2. NotifyConns(poller)
    BY <1>3, <2>1
    DEF Next, vars, reloaderVars, connVars, Reload, Reloading, Read, ReadFails,
        Unchanged, Changed, Rejected, Publish, DigestRead, Loaded, World,
        Cancel, PollerReturns, StopReturns, Swap, Serving, Calling,
        HandshakeStarts, HandshakeEnds, ConnCloses, CallStarts, CallEnds,
        DialStarts, DialEnds, DialFails, IdleCloses
  <2>3. Material(reload[poller].read) = current
    BY <2>1, <1>3 DEF TrustInv, ReloadInHand
  <2> QED
    BY <1>3, <2>2, <2>3 DEF NotifyConns, CloseRetired
<1>4. TrustInv /\ [Next]_vars =>
        [\A c \in Conns :
           (~Announced /\ Announced' /\ conn[c].step = "open"
              /\ conn[c].root \in current.ca) => conn'[c] = conn[c]]_vars
  BY <1>3
<1> QED
  BY <1>1, <1>2, <1>4, PTL DEF Spec, OnlyRetiredClosed

-----------------------------------------------------------------------------
(***************************************************************************)
(* The Reloader keeps its promises under its connections: they add to it,    *)
(* and no step of theirs is one it could not take.                           *)
(***************************************************************************)
\* Rotation implements the Reloader's specification (credentials.go only reads
\* what the Reloader publishes).
THEOREM ReloaderImplemented == Spec => ReloaderSpec
<1>1. Init => ReloaderInit
  BY DEF Init
<1> QED
  BY <1>1, ReloaderPart, PTL DEF Spec, ReloaderSpec

\* After Stop returned no callback of the poller's closes a connection any
\* more, for any number of connections and calls in progress (Reloader.Stop).
THEOREM StopQuietsCallbacks ==
  Spec => []StoppedIsQuiet
<1> QED
  BY ReloaderImplemented, StopQuiets, PTL
=============================================================================
