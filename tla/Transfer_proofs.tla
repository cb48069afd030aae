---------------------------- MODULE Transfer_proofs ----------------------------
(***************************************************************************)
(* Proofs about Transfer, for any number of workers, uploads and faults:     *)
(* an answered upload is the caller's own, and the flow is a write-once      *)
(* register for each command identity.  Digests are taken to be free of     *)
(* collisions (UploadAssumption).                                           *)
(***************************************************************************)
EXTENDS Transfer, TLAPS

-----------------------------------------------------------------------------
Types ==
  /\ pc \in [Workers -> {"idle", "begin", "put", "finalize", "done"}]
  /\ upload \in [Workers -> Uploads \cup {NoUpload}]
  /\ version \in [Workers -> Versions]
  /\ answer \in [Workers -> Answer]
  /\ transfers \in [Keys -> Transfers \cup {NoTransfer}]
  /\ store \in [Keys -> Seq(Bytes \cup {Corrupt})]
  /\ current \in BOOLEAN
  /\ late \subseteq LateCalls
  /\ faults \in 0..MaxFaults
  /\ told \subseteq Keys \X Versions

\* Control holds the transfer of an upload.
Holds(u) == transfers[Key(u)] # NoTransfer /\ transfers[Key(u)].binding = Binding(u)

Stored(k, v) == v \in 1..Len(store[k])

\* An upload under way has a transfer before its PUT and a stored version
\* before its finalization; one answered as finalized is.
WorkerInv(w) ==
  /\ pc[w] # "idle" => upload[w] \in Uploads
  /\ pc[w] \in {"put", "finalize"} => Holds(upload[w])
  /\ pc[w] = "finalize" => Stored(Key(upload[w]), version[w])
  /\ answer[w].code = "OK" =>
       /\ pc[w] = "done" /\ Holds(upload[w])
       /\ transfers[Key(upload[w])].state = "finalized"
       /\ transfers[Key(upload[w])].version = answer[w].version

\* A finalized transfer names a stored version with the declared digest.
KeptInv ==
  \A k \in Keys : State(k) = "finalized" =>
    /\ Stored(k, transfers[k].version)
    /\ \E b \in Bytes : /\ store[k][transfers[k].version] = b
                        /\ DigestOf[b] = transfers[k].binding.digest

LateInv ==
  \A f \in late : f.command = "finalize" => f.key \in Keys /\ Stored(f.key, f.version)

IInv == Types /\ KeptInv /\ LateInv /\ \A w \in Workers : WorkerInv(w)

\* Versions stay, transfers stay and a finalized one does not change.
StoreGrows ==
  \A k \in Keys :
    /\ Len(store'[k]) >= Len(store[k])
    /\ \A v \in 1..Len(store[k]) : store'[k][v] = store[k][v]

TransfersGrow ==
  \A k \in Keys : transfers[k] # NoTransfer =>
    /\ transfers'[k] # NoTransfer /\ transfers'[k].binding = transfers[k].binding
    /\ transfers[k].state = "finalized" => transfers'[k] = transfers[k]

Grows == StoreGrows /\ TransfersGrow

LEMMA UploadType ==
  ASSUME NEW u \in Uploads
  PROVE  Key(u) \in Keys /\ Binding(u) \in Bindings /\ u.bytes \in Bytes
BY UploadAssumption DEF Keys, Bindings

LEMMA LenType ==
  ASSUME Types, NEW k \in Keys
  PROVE  Len(store[k]) \in Nat
BY DEF Types

-----------------------------------------------------------------------------
(***************************************************************************)
(* Control and the store.                                                   *)
(***************************************************************************)
LEMMA BeginsInv ==
  ASSUME Types, KeptInv, NEW u \in Uploads, Begins(u), UNCHANGED store
  PROVE  /\ transfers' \in [Keys -> Transfers \cup {NoTransfer}]
         /\ TransfersGrow /\ KeptInv'
         /\ Holds(u)'
<1>1. Key(u) \in Keys /\ Binding(u) \in Bindings
  BY UploadType
<1> DEFINE t == [binding |-> Binding(u), state |-> "begun", version |-> NoVersion]
<1>2. t \in Transfers /\ t # NoTransfer
  <2>1. NoVersion \in Versions
    BY DEF NoVersion, Versions
  <2>2. t \in Transfers
    BY <1>1, <2>1 DEF Transfers
  <2> QED
    BY <2>2, TransferAssumption
<1>3. CASE transfers[Key(u)] = NoTransfer /\ transfers' = [transfers EXCEPT ![Key(u)] = t]
  <2>1. t.state = "begun" /\ t.binding = Binding(u)
    OBVIOUS
  <2> HIDE DEF t
  <2>2. transfers'[Key(u)] = t /\ \A k \in Keys \ {Key(u)} : transfers'[k] = transfers[k]
    BY <1>1, <1>3 DEF Types
  <2> QED
    BY <1>1, <1>2, <1>3, <2>1, <2>2
    DEF Types, TransfersGrow, KeptInv, Holds, State, Stored
<1>4. CASE /\ transfers[Key(u)] # NoTransfer
           /\ transfers[Key(u)].binding = Binding(u) /\ UNCHANGED transfers
  BY <1>4 DEF Types, TransfersGrow, KeptInv, Holds, State, Stored
<1> QED
  BY <1>3, <1>4 DEF Begins

LEMMA FinalizesInv ==
  ASSUME Types, KeptInv, NEW k \in Keys, NEW v, Stored(k, v), Finalizes(k, v),
         UNCHANGED store
  PROVE  /\ transfers' \in [Keys -> Transfers \cup {NoTransfer}]
         /\ TransfersGrow /\ KeptInv'
         /\ transfers'[k] # NoTransfer /\ transfers'[k].version = v
<1>1. v \in Versions
  BY LenType DEF Stored, Versions
<1>2. CASE State(k) = "begun"
  <2>1. transfers[k] # NoTransfer /\ transfers[k] \in Transfers /\ transfers[k].state = "begun"
    BY <1>2 DEF State, Types
  <2> DEFINE right == \E b \in Bytes :
                        store[k][v] = b /\ DigestOf[b] = transfers[k].binding.digest
             t == [transfers[k] EXCEPT
                     !.state = IF right THEN "finalized" ELSE "rejected",
                     !.version = v]
  <2>2. transfers' = [transfers EXCEPT ![k] = t]
    BY <1>2, <2>1 DEF Finalizes, Types
  <2>3. /\ t \in Transfers /\ t.binding = transfers[k].binding /\ t.version = v
        /\ t.state = "finalized" => right
    BY <1>1, <2>1 DEF Transfers
  <2> HIDE DEF t, right
  <2>4. t # NoTransfer
    BY <2>3, TransferAssumption
  <2>5. transfers'[k] = t /\ \A j \in Keys \ {k} : transfers'[j] = transfers[j]
    BY <2>2 DEF Types
  <2>6. TransfersGrow
    BY <2>1, <2>3, <2>4, <2>5 DEF TransfersGrow
  <2>7. KeptInv'
    BY <2>3, <2>4, <2>5 DEF KeptInv, State, Stored, right
  <2> QED
    BY <2>2, <2>3, <2>4, <2>5, <2>6, <2>7 DEF Types
<1>3. CASE /\ State(k) \in {"finalized", "rejected"} /\ transfers[k].version = v
           /\ UNCHANGED transfers
  BY <1>3 DEF Types, TransfersGrow, KeptInv, State, Stored
<1> QED
  BY <1>2, <1>3 DEF Finalizes

LEMMA StoresInv ==
  ASSUME Types, KeptInv, NEW k \in Keys, NEW b \in Bytes \cup {Corrupt},
         Stores(k, b), UNCHANGED transfers
  PROVE  /\ store' \in [Keys -> Seq(Bytes \cup {Corrupt})]
         /\ Grows /\ KeptInv'
         /\ Len(store'[k]) = Len(store[k]) + 1
<1>1. store[k] \in Seq(Bytes \cup {Corrupt})
  BY DEF Types
<1>2. store'[k] = Append(store[k], b) /\ \A j \in Keys \ {k} : store'[j] = store[j]
  BY DEF Stores, Types
<1>3. /\ store'[k] \in Seq(Bytes \cup {Corrupt})
      /\ Len(store'[k]) = Len(store[k]) + 1
      /\ \A v \in 1..Len(store[k]) : store'[k][v] = store[k][v]
  BY <1>1, <1>2
<1>4. StoreGrows
  BY <1>2, <1>3, LenType DEF StoreGrows
<1>5. KeptInv'
  BY <1>4, LenType DEF KeptInv, State, Stored, StoreGrows, Types
<1> QED
  BY <1>3, <1>4, <1>5 DEF Stores, Types, Grows, TransfersGrow

-----------------------------------------------------------------------------
(***************************************************************************)
(* The workers.                                                             *)
(***************************************************************************)
SameWorker(d) ==
  /\ pc'[d] = pc[d] /\ upload'[d] = upload[d]
  /\ version'[d] = version[d] /\ answer'[d] = answer[d]

LEMMA OthersKept ==
  ASSUME IInv, Types', Grows, NEW d \in Workers, SameWorker(d)
  PROVE  WorkerInv(d)'
<1>1. WorkerInv(d)
  BY DEF IInv
<1>2. CASE upload[d] \in Uploads
  <2>1. Key(upload[d]) \in Keys
    BY <1>2, UploadType
  <2>2. Holds(upload[d]) => Holds(upload[d])'
    BY <2>1 DEF Holds, Grows, TransfersGrow, SameWorker
  <2>3. Stored(Key(upload[d]), version[d]) => Stored(Key(upload[d]), version[d])'
    <3>1. /\ Len(store[Key(upload[d])]) \in Nat /\ Len(store'[Key(upload[d])]) \in Nat
          /\ Len(store'[Key(upload[d])]) >= Len(store[Key(upload[d])])
      BY <2>1, LenType DEF IInv, Types, Grows, StoreGrows
    <3> QED
      BY <3>1 DEF Stored, SameWorker
  <2>4. Holds(upload[d]) /\ transfers[Key(upload[d])].state = "finalized" =>
          transfers'[Key(upload[d])] = transfers[Key(upload[d])]
    BY <2>1 DEF Holds, Grows, TransfersGrow
  <2> QED
    BY <1>1, <2>2, <2>3, <2>4 DEF WorkerInv, SameWorker
<1>3. CASE upload[d] \notin Uploads
  BY <1>1, <1>3 DEF WorkerInv, SameWorker
<1> QED
  BY <1>2, <1>3

LEMMA LateKept ==
  ASSUME IInv, Types', Grows, late' \subseteq late
  PROVE  LateInv'
<1> SUFFICES ASSUME NEW f \in late', f.command = "finalize"
             PROVE  f.key \in Keys /\ Stored(f.key, f.version)'
  BY DEF LateInv
<1>1. f.key \in Keys /\ Stored(f.key, f.version)
  BY DEF IInv, LateInv
<1>2. /\ Len(store[f.key]) \in Nat /\ Len(store'[f.key]) \in Nat
      /\ Len(store'[f.key]) >= Len(store[f.key])
  BY <1>1, LenType DEF IInv, Grows, StoreGrows, Types
<1> QED
  BY <1>1, <1>2 DEF Stored

LEMMA OneWorker ==
  ASSUME IInv, Types', KeptInv', Grows, LateInv', NEW w \in Workers,
         WorkerInv(w)', \A d \in Workers \ {w} : SameWorker(d)
  PROVE  IInv'
BY OthersKept DEF IInv

\* Nothing but the workers changes.
LEMMA Unmoved ==
  ASSUME IInv, UNCHANGED <<transfers, store>>
  PROVE  Grows /\ KeptInv'
<1>1. \A k \in Keys : Len(store[k]) >= Len(store[k])
  BY LenType DEF IInv
<1>2. Grows
  BY <1>1 DEF Grows, StoreGrows, TransfersGrow
<1> QED
  BY <1>2 DEF IInv, KeptInv, State, Stored

LEMMA StoreUnmoved ==
  ASSUME IInv, UNCHANGED store
  PROVE  StoreGrows
<1>1. \A k \in Keys : Len(store[k]) >= Len(store[k])
  BY LenType DEF IInv
<1> QED
  BY <1>1 DEF StoreGrows

LEMMA FaultType ==
  ASSUME IInv, Fault
  PROVE  faults' \in 0..MaxFaults
BY FaultAssumption DEF IInv, Types, Fault

\* An answer that is not of a finalized transfer.
LEMMA ReplyInv ==
  ASSUME IInv, NEW w \in Workers, pc[w] # "idle",
         NEW code \in {"REFUSED", "DEPENDENCY_UNAVAILABLE"},
         Reply(w, code, NoVersion), UNCHANGED told,
         transfers' \in [Keys -> Transfers \cup {NoTransfer}],
         store' \in [Keys -> Seq(Bytes \cup {Corrupt})],
         current' \in BOOLEAN, late' \subseteq LateCalls, faults' \in 0..MaxFaults,
         KeptInv', Grows, LateInv'
  PROVE  IInv'
<1>1. [code |-> code, version |-> NoVersion] \in Answer
  BY DEF Answer, Codes, Versions, NoVersion
<1>2. Types'
  BY <1>1 DEF IInv, Types, Reply
<1>3. \A d \in Workers \ {w} : SameWorker(d)
  BY DEF SameWorker, Reply, IInv, Types
<1>4. pc'[w] = "done" /\ upload'[w] = upload[w] /\ answer'[w].code # "OK"
  BY DEF Reply, IInv, Types
<1>5. WorkerInv(w)'
  BY <1>4 DEF WorkerInv, IInv
<1> QED
  BY <1>2, <1>3, <1>5, OneWorker

\* An upload is answered as finalized when its transfer is.
LEMMA FinalizedInv ==
  ASSUME IInv, NEW w \in Workers, upload[w] \in Uploads,
         Finalized(w, transfers'[Key(upload[w])].version),
         transfers' \in [Keys -> Transfers \cup {NoTransfer}],
         KeptInv', TransfersGrow, UNCHANGED <<store, current, late, faults>>,
         Holds(upload[w])', UNCHANGED upload,
         transfers'[Key(upload[w])].state = "finalized"
  PROVE  IInv'
<1> DEFINE k == Key(upload[w])
           v == transfers'[k].version
<1>1. k \in Keys
  BY UploadType
<1>2. v \in Versions
  BY <1>1 DEF Holds, Transfers
<1>3. Reply(w, "OK", v) /\ told' = told \cup {<<k, v>>}
  BY DEF Finalized
<1>4. [code |-> "OK", version |-> v] \in Answer
  BY <1>2 DEF Answer, Codes
<1> HIDE DEF v
<1>5. Types'
  BY <1>1, <1>2, <1>3, <1>4 DEF IInv, Types, Reply
<1>6. \A d \in Workers \ {w} : SameWorker(d)
  BY <1>3 DEF SameWorker, Reply, IInv, Types
<1>7. pc'[w] = "done" /\ upload'[w] = upload[w] /\ answer'[w].version = v
  BY <1>3 DEF Reply, IInv, Types
<1>8. WorkerInv(w)'
  BY <1>7 DEF WorkerInv, v
<1>9. Grows
  BY StoreUnmoved DEF Grows
<1> QED
  BY <1>5, <1>6, <1>8, <1>9, LateKept, OneWorker

-----------------------------------------------------------------------------
(***************************************************************************)
(* The steps.                                                               *)
(***************************************************************************)
LEMMA HarnessInv ==
  ASSUME IInv, NEW w \in Workers, Start(w) \/ Retry(w) \/ Close(w)
  PROVE  IInv'
<1>1. NoAnswer \in Answer /\ NoAnswer.code # "OK" /\ NoVersion \in Versions
  BY DEF NoAnswer, Answer, Codes, Versions, NoVersion
<1>2. Types'
  <2>1. CASE Start(w)
    BY <2>1 DEF IInv, Types, Start
  <2>2. CASE Retry(w)
    BY <1>1, <2>2 DEF IInv, Types, Retry
  <2>3. CASE Close(w)
    BY <1>1, <2>3 DEF IInv, Types, Close
  <2> QED
    BY <2>1, <2>2, <2>3
<1>3. Grows /\ KeptInv'
  BY Unmoved DEF Start, Retry, Close
<1>4. LateInv'
  BY <1>2, <1>3, LateKept DEF Start, Retry, Close
<1>5. \A d \in Workers \ {w} : SameWorker(d)
  BY DEF Start, Retry, Close, SameWorker, IInv, Types
<1>6. WorkerInv(w)'
  <2>1. CASE Start(w)
    BY <2>1 DEF Start, IInv, Types, WorkerInv
  <2>2. CASE Retry(w)
    BY <1>1, <2>2 DEF Retry, IInv, Types, WorkerInv
  <2>3. CASE Close(w)
    BY <1>1, <2>3 DEF Close, IInv, Types, WorkerInv
  <2> QED
    BY <2>1, <2>2, <2>3
<1> QED
  BY <1>2, <1>3, <1>4, <1>5, <1>6, OneWorker

LEMMA BeginInv ==
  ASSUME IInv, NEW w \in Workers, Begin(w) \/ BeginRefused(w) \/ BeginLost(w)
  PROVE  IInv'
<1>1. pc[w] = "begin" /\ upload[w] \in Uploads /\ UNCHANGED <<store, current>>
  BY DEF Begin, BeginRefused, BeginLost, IInv, WorkerInv
<1>2. Types /\ KeptInv
  BY DEF IInv
<1>3. CASE Begin(w)
  <2>1. /\ transfers' \in [Keys -> Transfers \cup {NoTransfer}]
        /\ TransfersGrow /\ KeptInv' /\ Holds(upload[w])'
    <3>1. \A u \in Uploads : Begins(u) =>
            /\ transfers' \in [Keys -> Transfers \cup {NoTransfer}]
            /\ TransfersGrow /\ KeptInv'
            /\ transfers'[Key(u)] # NoTransfer
            /\ transfers'[Key(u)].binding = Binding(u)
      BY <1>1, <1>2, BeginsInv DEF Holds
    <3>2. UNCHANGED upload
      BY <1>3 DEF Begin, AfterBegin, Finalized, Refused, Reply, Goto
    <3> QED
      BY <1>1, <1>3, <3>1, <3>2 DEF Begin, Holds
  <2>2. UNCHANGED <<store, current, late, faults>>
    BY <1>3 DEF Begin
  <2>3. Grows
    BY <2>1, <2>2, StoreUnmoved DEF Grows
  <2>4. CASE /\ transfers'[Key(upload[w])].state = "finalized"
             /\ Finalized(w, transfers'[Key(upload[w])].version)
    <3>1. UNCHANGED upload
      BY <2>4 DEF Finalized, Reply
    <3> QED
      BY <1>1, <2>1, <2>2, <2>4, <3>1, FinalizedInv
  <2>5. CASE Goto(w, "put") /\ UNCHANGED told
    <3>1. Types'
      BY <1>2, <2>1, <2>2, <2>5 DEF Types, Goto
    <3>2. \A d \in Workers \ {w} : SameWorker(d)
      BY <1>2, <2>5 DEF Goto, SameWorker, Types
    <3>3. WorkerInv(w)'
      <4>1. pc'[w] = "put" /\ upload'[w] = upload[w] /\ answer'[w] = answer[w]
        BY <1>2, <2>5 DEF Goto, Types
      <4>2. answer[w].code # "OK"
        BY <1>1 DEF IInv, WorkerInv
      <4> QED
        BY <1>1, <2>1, <4>1, <4>2 DEF WorkerInv
    <3> QED
      BY <2>1, <2>2, <2>3, <3>1, <3>2, <3>3, LateKept, OneWorker
  <2>6. CASE Refused(w) /\ UNCHANGED told
    <3>1. Types'
      BY <1>2, <2>1, <2>2, <2>6
      DEF Types, Refused, Reply, Answer, Codes, Versions, NoVersion
    <3> QED
      BY <1>1, <2>1, <2>2, <2>3, <2>6, <3>1, LateKept, ReplyInv
      DEF Refused, Types
  <2> QED
    BY <1>3, <2>4, <2>5, <2>6 DEF Begin, AfterBegin
<1>4. CASE BeginRefused(w)
  <2>1. Grows /\ KeptInv'
    BY <1>4, Unmoved DEF BeginRefused
  <2>2. Types'
    BY <1>2, <1>4
    DEF Types, BeginRefused, Refused, Reply, Answer, Codes, Versions, NoVersion
  <2> QED
    BY <1>1, <1>4, <2>1, <2>2, LateKept, ReplyInv DEF BeginRefused, Refused, Types
<1>5. CASE BeginLost(w)
  <2>1. /\ transfers' \in [Keys -> Transfers \cup {NoTransfer}]
        /\ TransfersGrow /\ KeptInv'
    <3>1. CASE Begins(upload[w])
      BY <1>1, <1>2, <3>1, BeginsInv
    <3>2. CASE UNCHANGED transfers
      BY <1>1, <1>2, <3>2, Unmoved DEF Types, Grows
    <3> QED
      BY <1>5, <3>1, <3>2 DEF BeginLost
  <2>2. Grows
    BY <1>1, <2>1, StoreUnmoved DEF Grows
  <2>3. late' \subseteq late \cup {[command |-> "begin", upload |-> upload[w]]}
    BY <1>5 DEF BeginLost
  <2>4. [command |-> "begin", upload |-> upload[w]] \in LateCalls
    BY <1>1 DEF LateCalls
  <2>5. late' \subseteq LateCalls
    BY <1>2, <2>3, <2>4 DEF Types
  <2>6. LateInv'
    BY <1>1, <2>3 DEF IInv, LateInv, Stored
  <2> QED
    BY <1>1, <1>2, <1>5, <2>1, <2>2, <2>5, <2>6, FaultType, ReplyInv
    DEF BeginLost, Unavailable, Types
<1> QED
  BY <1>3, <1>4, <1>5

LEMMA PutInv ==
  ASSUME IInv, NEW w \in Workers, Put(w) \/ PutCorrupts(w) \/ PutFails(w)
  PROVE  IInv'
<1> DEFINE k == Key(upload[w])
<1>1. /\ pc[w] = "put" /\ upload[w] \in Uploads /\ Holds(upload[w])
      /\ answer[w].code # "OK" /\ k \in Keys /\ upload[w].bytes \in Bytes
  BY UploadType DEF Put, PutCorrupts, PutFails, IInv, WorkerInv
<1>2. Types /\ KeptInv /\ UNCHANGED <<transfers, current, late, told>>
  BY DEF IInv, Put, PutCorrupts, PutFails
<1>3. /\ store' \in [Keys -> Seq(Bytes \cup {Corrupt})]
      /\ Grows /\ KeptInv'
      /\ \/ Len(store'[k]) = Len(store[k]) + 1
         \/ PutFails(w)
  <2>1. CASE \E b \in Bytes \cup {Corrupt} : Stores(k, b)
    BY <1>1, <1>2, <2>1, StoresInv
  <2>2. CASE PutFails(w) /\ UNCHANGED store
    BY <1>2, <2>2, Unmoved DEF Types
  <2> QED
    BY <1>1, <2>1, <2>2 DEF Put, PutCorrupts, PutFails
<1>4. faults' \in 0..MaxFaults
  BY <1>2, FaultType DEF Put, PutCorrupts, PutFails, Types
<1>5. CASE Put(w) \/ PutCorrupts(w)
  <2>1. /\ pc' = [pc EXCEPT ![w] = "finalize"]
        /\ version' = [version EXCEPT ![w] = Len(store[k]) + 1]
        /\ UNCHANGED <<upload, answer>>
        /\ Len(store[k]) \in Nat
    BY <1>1, <1>2, <1>5, LenType DEF Put, PutCorrupts
  <2> HIDE DEF k
  <2>2. Types'
    BY <1>2, <1>3, <1>4, <2>1 DEF Types, Versions
  <2>3. \A d \in Workers \ {w} : SameWorker(d)
    BY <1>2, <2>1 DEF SameWorker, Types
  <2>4. /\ pc'[w] = "finalize" /\ upload'[w] = upload[w] /\ answer'[w] = answer[w]
        /\ version'[w] = Len(store[k]) + 1
    BY <1>2, <2>1 DEF Types
  <2>5. Len(store'[k]) = Len(store[k]) + 1
    <3>1. Stores(k, upload[w].bytes) \/ Stores(k, Corrupt)
      BY <1>5 DEF Put, PutCorrupts, k
    <3> QED
      BY <1>1, <1>2, <3>1, StoresInv DEF k
  <2>6. Stored(k, version[w])'
    BY <2>1, <2>4, <2>5 DEF Stored, k
  <2>7. Holds(upload[w])'
    BY <1>1, <1>2, <2>1 DEF Holds
  <2>8. WorkerInv(w)'
    BY <1>1, <2>4, <2>6, <2>7 DEF WorkerInv, k
  <2> QED
    BY <1>2, <1>3, <2>2, <2>3, <2>8, LateKept, OneWorker
<1>6. CASE PutFails(w)
  <2>1. Types'
    BY <1>2, <1>3, <1>4, <1>6
    DEF Types, PutFails, Unavailable, Reply, Answer, Codes, Versions, NoVersion
  <2> QED
    BY <1>1, <1>2, <1>3, <1>4, <1>6, <2>1, LateKept, ReplyInv
    DEF PutFails, Unavailable, Types
<1> QED
  BY <1>5, <1>6
LEMMA FinalizeInv ==
  ASSUME IInv, NEW w \in Workers, Finalize(w) \/ FinalizeRefused(w) \/ FinalizeLost(w)
  PROVE  IInv'
<1> DEFINE k == Key(upload[w])
<1>1. /\ pc[w] = "finalize" /\ upload[w] \in Uploads /\ Holds(upload[w])
      /\ Stored(k, version[w]) /\ k \in Keys /\ UNCHANGED <<store, current>>
  BY UploadType DEF Finalize, FinalizeRefused, FinalizeLost, IInv, WorkerInv
<1>2. Types /\ KeptInv
  BY DEF IInv
<1>3. ASSUME Finalizes(k, version[w])
      PROVE  /\ transfers' \in [Keys -> Transfers \cup {NoTransfer}]
             /\ TransfersGrow /\ KeptInv'
  BY <1>1, <1>2, <1>3, FinalizesInv
<1>4. CASE Finalize(w)
  <2>1. /\ transfers' \in [Keys -> Transfers \cup {NoTransfer}]
        /\ TransfersGrow /\ KeptInv'
    BY <1>3, <1>4 DEF Finalize
  <2>2. UNCHANGED <<store, current, late, faults>>
    BY <1>4 DEF Finalize
  <2>3. CASE /\ transfers'[k].state = "finalized"
             /\ Finalized(w, transfers'[k].version)
    <3>1. UNCHANGED upload
      BY <2>3 DEF Finalized, Reply
    <3>2. Holds(upload[w])'
      BY <1>1, <2>1, <3>1 DEF Holds, TransfersGrow
    <3> QED
      BY <1>1, <2>1, <2>2, <2>3, <3>1, <3>2, FinalizedInv
  <2>4. CASE Refused(w) /\ UNCHANGED told
    <3>1. Types'
      BY <1>2, <2>1, <2>2, <2>4
      DEF Types, Refused, Reply, Answer, Codes, Versions, NoVersion
    <3>2. Grows
      BY <2>1, <2>2, StoreUnmoved DEF Grows
    <3> QED
      BY <1>1, <2>1, <2>2, <2>4, <3>1, <3>2, LateKept, ReplyInv DEF Refused, Types
  <2> QED
    BY <1>4, <2>3, <2>4 DEF Finalize
<1>5. CASE FinalizeRefused(w)
  <2>1. Grows /\ KeptInv'
    BY <1>5, Unmoved DEF FinalizeRefused
  <2>2. Types'
    BY <1>2, <1>5
    DEF Types, FinalizeRefused, Refused, Reply, Answer, Codes, Versions, NoVersion
  <2> QED
    BY <1>1, <1>5, <2>1, <2>2, LateKept, ReplyInv DEF FinalizeRefused, Refused, Types
<1>6. CASE FinalizeLost(w)
  <2> DEFINE call == [command |-> "finalize", key |-> k, version |-> version[w]]
  <2>1. /\ transfers' \in [Keys -> Transfers \cup {NoTransfer}]
        /\ TransfersGrow /\ KeptInv'
    <3>1. CASE UNCHANGED transfers
      BY <1>1, <1>2, <3>1, Unmoved DEF Types, Grows
    <3> QED
      BY <1>3, <1>6, <3>1 DEF FinalizeLost
  <2>2. Grows
    BY <1>1, <2>1, StoreUnmoved DEF Grows
  <2>3. late' \subseteq late \cup {call}
    BY <1>6 DEF FinalizeLost
  <2>4. call \in LateCalls /\ call.key = k /\ call.version = version[w]
    BY <1>1, <1>2 DEF LateCalls, Types
  <2> HIDE DEF call
  <2>5. late' \subseteq LateCalls
    BY <1>2, <2>3, <2>4 DEF Types
  <2>6. LateInv'
    BY <1>1, <2>3, <2>4 DEF IInv, LateInv, Stored
  <2> QED
    BY <1>1, <1>2, <1>6, <2>1, <2>2, <2>5, <2>6, FaultType, ReplyInv
    DEF FinalizeLost, Unavailable, Types
<1> QED
  BY <1>4, <1>5, <1>6

\* A call handled after its caller gave up moves Control's transfer alone.
LEMMA LateCallInv ==
  ASSUME IInv, LateBegin \/ LateFinalize
  PROVE  IInv'
<1>1. UNCHANGED <<workerVars, store, current, faults, told>> /\ late' \subseteq late
  BY DEF LateBegin, LateFinalize
<1>2. Types /\ KeptInv
  BY DEF IInv
<1>3. /\ transfers' \in [Keys -> Transfers \cup {NoTransfer}]
      /\ TransfersGrow /\ KeptInv'
  <2>1. CASE UNCHANGED transfers
    BY <1>1, <1>2, <2>1, Unmoved DEF Types, Grows
  <2>2. CASE \E u \in Uploads : Begins(u)
    BY <1>1, <1>2, <2>2, BeginsInv
  <2>3. CASE \E f \in late : f.command = "finalize" /\ Finalizes(f.key, f.version)
    <3>1. PICK f \in late : f.command = "finalize" /\ Finalizes(f.key, f.version)
      BY <2>3
    <3>2. f.key \in Keys /\ Stored(f.key, f.version)
      BY <3>1 DEF IInv, LateInv
    <3> QED
      BY <1>1, <1>2, <3>1, <3>2, FinalizesInv
  <2> QED
    BY <2>1, <2>2, <2>3 DEF LateBegin, LateFinalize
<1>4. Grows
  BY <1>1, <1>3, StoreUnmoved DEF Grows
<1>5. Types'
  BY <1>1, <1>2, <1>3 DEF Types, workerVars
<1>6. \A d \in Workers : SameWorker(d)
  BY <1>1 DEF SameWorker, workerVars
<1> QED
  BY <1>1, <1>3, <1>4, <1>5, <1>6, LateKept, OthersKept DEF IInv

LEMMA CrashInv ==
  ASSUME IInv, Crash
  PROVE  IInv'
<1>1. UNCHANGED <<upload, version, transfers, store, current, late, told>> /\ Fault
  BY DEF Crash
<1>2. Grows /\ KeptInv'
  BY <1>1, Unmoved
<1>3. Types'
  <2>1. [code |-> "DEPENDENCY_UNAVAILABLE", version |-> NoVersion] \in Answer
    BY DEF Answer, Codes, Versions, NoVersion
  <2> QED
    BY <1>1, <2>1, FaultType DEF Crash, IInv, Types
<1>4. ASSUME NEW w \in Workers
      PROVE  WorkerInv(w)'
  <2>1. CASE pc[w] \in {"idle", "done"}
    BY <1>1, <1>2, <1>3, <2>1, OthersKept DEF Crash, SameWorker
  <2>2. CASE pc[w] \notin {"idle", "done"}
    BY <1>1, <2>2 DEF Crash, IInv, WorkerInv
  <2> QED
    BY <2>1, <2>2
<1> QED
  BY <1>1, <1>2, <1>3, <1>4, LateKept DEF IInv

LEMMA ReplaceInv ==
  ASSUME IInv, Replace
  PROVE  IInv'
<1>1. UNCHANGED <<workerVars, transfers, store, late, faults, told>> /\ current' = FALSE
  BY DEF Replace
<1>2. Grows /\ KeptInv'
  BY <1>1, Unmoved
<1>3. Types'
  BY <1>1 DEF IInv, Types, workerVars
<1>4. \A d \in Workers : SameWorker(d)
  BY <1>1 DEF SameWorker, workerVars
<1> QED
  BY <1>1, <1>2, <1>3, <1>4, LateKept, OthersKept DEF IInv

LEMMA StillInv ==
  ASSUME IInv, UNCHANGED vars
  PROVE  IInv'
BY DEF vars, workerVars, IInv, Types, KeptInv, LateInv, WorkerInv, Holds, Stored, State

LEMMA IInvNext == IInv /\ [Next]_vars => IInv'
BY HarnessInv, BeginInv, PutInv, FinalizeInv, LateCallInv, CrashInv, ReplaceInv, StillInv
DEF Next, Handle

LEMMA IInvInit == Init => IInv
<1> SUFFICES ASSUME Init PROVE IInv
  OBVIOUS
<1>1. Types
  <2>1. NoAnswer \in Answer
    BY DEF NoAnswer, Answer, Codes, Versions, NoVersion
  <2>2. <<>> \in Seq(Bytes \cup {Corrupt})
    OBVIOUS
  <2> QED
    BY <2>1, <2>2, FaultAssumption DEF Init, Types, Versions, NoVersion
<1>2. KeptInv /\ LateInv
  BY DEF Init, KeptInv, LateInv, State
<1>3. \A w \in Workers : WorkerInv(w)
  BY DEF Init, WorkerInv, NoAnswer
<1> QED
  BY <1>1, <1>2, <1>3 DEF IInv

LEMMA Inductive == Spec => []IInv
BY IInvInit, IInvNext, PTL DEF Spec

-----------------------------------------------------------------------------
(***************************************************************************)
(* The theorems.                                                            *)
(***************************************************************************)
\* The state keeps its types, and what an upload finalizes is a version the
\* store assigned, whatever was lost, late or restarted (Client.Upload).
THEOREM TypeCorrect == Spec => []TypeOK
<1>1. IInv => TypeOK
  BY DEF IInv, Types, TypeOK, WorkerInv, Stored
<1> QED
  BY <1>1, Inductive, PTL

\* An upload answered as finalized is the caller's own: the version named
\* holds its bytes under its class, digest and media type (Client.Upload).
THEOREM AnswersAreOwn == Spec => []AnsweredAsRequested
<1>1. IInv => AnsweredAsRequested
  <2> SUFFICES ASSUME IInv, NEW w \in Workers, answer[w].code = "OK"
               PROVE  /\ transfers[Key(upload[w])] =
                           [binding |-> Binding(upload[w]), state |-> "finalized",
                            version |-> answer[w].version]
                      /\ transfers[Key(upload[w])].binding.digest =
                           DigestOf[upload[w].bytes]
                      /\ transfers[Key(upload[w])].binding.media = upload[w].media
                      /\ store[Key(upload[w])][answer[w].version] = upload[w].bytes
    BY DEF AnsweredAsRequested
  <2> DEFINE k == Key(upload[w])
             t == transfers[k]
  <2>1. /\ upload[w] \in Uploads /\ Holds(upload[w])
        /\ t.state = "finalized" /\ t.version = answer[w].version
    BY DEF IInv, WorkerInv
  <2>2. k \in Keys /\ upload[w].bytes \in Bytes
    BY <2>1, UploadType
  <2>3. t # NoTransfer /\ t \in Transfers /\ t.binding = Binding(upload[w])
    BY <2>1, <2>2 DEF Holds, IInv, Types
  <2>4. t = [binding |-> Binding(upload[w]), state |-> "finalized",
             version |-> answer[w].version]
    BY <2>1, <2>3 DEF Transfers
  <2>5. PICK b \in Bytes : store[k][t.version] = b /\ DigestOf[b] = t.binding.digest
    BY <2>1, <2>2, <2>3 DEF IInv, KeptInv, State
  <2>6. t.binding.digest = DigestOf[upload[w].bytes] /\ t.binding.media = upload[w].media
    BY <2>3 DEF Binding
  <2>7. b = upload[w].bytes
    BY <2>2, <2>5, <2>6, UploadAssumption
  <2> QED
    BY <2>1, <2>4, <2>5, <2>6, <2>7
<1> QED
  BY <1>1, Inductive, PTL
-----------------------------------------------------------------------------
(***************************************************************************)
(* Refusals.  What a caller was refused for stays.                          *)
(***************************************************************************)
Denied(w) ==
  LET t == transfers[Key(upload[w])] IN
    \/ ~Known(w)
    \/ /\ t # NoTransfer
       /\ \/ t.binding # Binding(upload[w])
          \/ t.state = "rejected"
          \/ t.state = "finalized" /\ t.version # version[w]

Excused(w) ==
  answer[w].code = "REFUSED" => pc[w] = "done" /\ (current => Denied(w))

DeniedInv == IInv /\ \A w \in Workers : Excused(w)

\* A transfer keeps its request, and one that ended stays as it is.
TransfersStay ==
  \A k \in Keys : transfers[k] # NoTransfer =>
    /\ transfers'[k] # NoTransfer /\ transfers'[k].binding = transfers[k].binding
    /\ transfers[k].state # "begun" => transfers'[k] = transfers[k]

LEMMA BeginsStay ==
  ASSUME Types, NEW u \in Uploads, Begins(u)
  PROVE  /\ TransfersStay
         /\ transfers'[Key(u)] # NoTransfer
<1>1. Key(u) \in Keys /\ Binding(u) \in Bindings
  BY UploadType
<1> DEFINE t == [binding |-> Binding(u), state |-> "begun", version |-> NoVersion]
<1>2. t # NoTransfer
  <2>1. t \in Transfers
    BY <1>1 DEF Transfers, NoVersion, Versions
  <2> QED
    BY <2>1, TransferAssumption
<1> HIDE DEF t
<1>3. CASE transfers[Key(u)] = NoTransfer /\ transfers' = [transfers EXCEPT ![Key(u)] = t]
  BY <1>1, <1>2, <1>3 DEF Types, TransfersStay
<1>4. CASE transfers[Key(u)] # NoTransfer /\ UNCHANGED transfers
  BY <1>4 DEF TransfersStay
<1> QED
  BY <1>3, <1>4 DEF Begins, t

LEMMA FinalizesStay ==
  ASSUME Types, NEW k \in Keys, NEW v \in Versions, Finalizes(k, v)
  PROVE  TransfersStay
<1>1. CASE State(k) = "begun"
  <2>1. transfers[k] # NoTransfer /\ transfers[k] \in Transfers /\ transfers[k].state = "begun"
    BY <1>1 DEF State, Types
  <2>2. PICK state \in {"finalized", "rejected"} :
          transfers' = [transfers EXCEPT ![k].state = state, ![k].version = v]
    BY <1>1 DEF Finalizes
  <2> DEFINE t == [transfers[k] EXCEPT !.state = state, !.version = v]
  <2>3. t \in Transfers /\ t.binding = transfers[k].binding
    BY <2>1 DEF Transfers
  <2>4. transfers' = [transfers EXCEPT ![k] = t]
    BY <2>2 DEF Types
  <2> HIDE DEF t
  <2>5. t # NoTransfer
    BY <2>3, TransferAssumption
  <2> QED
    BY <2>1, <2>3, <2>4, <2>5 DEF Types, TransfersStay
<1>2. CASE UNCHANGED transfers
  BY <1>2 DEF TransfersStay
<1> QED
  BY <1>1, <1>2 DEF Finalizes

LEMMA DeniedStays ==
  ASSUME DeniedInv, TransfersStay, current' => current,
         NEW d \in Workers, SameWorker(d)
  PROVE  Excused(d)'
<1>1. CASE answer[d].code # "REFUSED"
  BY <1>1 DEF Excused, SameWorker
<1>2. CASE answer[d].code = "REFUSED"
  <2>1. pc[d] = "done" /\ (current => Denied(d))
    BY <1>2 DEF DeniedInv, Excused
  <2>2. Key(upload[d]) \in Keys
    BY <2>1, UploadType DEF DeniedInv, IInv, WorkerInv
  <2>3. Denied(d) => Denied(d)'
    <3>1. SUFFICES ASSUME Denied(d)
                   PROVE  Denied(d)'
      OBVIOUS
    <3>2. CASE ~Known(d)
      BY <3>2 DEF Denied, Known, SameWorker
    <3>3. CASE Known(d)
      <4>1. /\ transfers[Key(upload[d])] # NoTransfer
            /\ transfers'[Key(upload[d])] # NoTransfer
            /\ transfers'[Key(upload[d])].binding = transfers[Key(upload[d])].binding
            /\ transfers[Key(upload[d])].state # "begun" =>
                 transfers'[Key(upload[d])] = transfers[Key(upload[d])]
        BY <2>2, <3>1, <3>3 DEF Denied, TransfersStay
      <4> QED
        BY <3>1, <3>3, <4>1 DEF Denied, Known, SameWorker
    <3> QED
      BY <3>2, <3>3
  <2> QED
    BY <2>1, <2>3 DEF Excused, SameWorker
<1> QED
  BY <1>1, <1>2

\* What is answered is no refusal, or one with its reason.
LEMMA AnsweredDenied ==
  ASSUME DeniedInv, TransfersStay, current' => current, NEW w \in Workers,
         NEW code, NEW v, Reply(w, code, v),
         code = "REFUSED" /\ current' => Denied(w)'
  PROVE  \A d \in Workers : Excused(d)'
<1>1. /\ pc'[w] = "done" /\ answer'[w].code = code
      /\ \A d \in Workers \ {w} : SameWorker(d)
  BY DEF Reply, SameWorker, DeniedInv, IInv, Types
<1> QED
  BY <1>1, DeniedStays DEF Excused

\* Steps of a worker that answer nothing.
LEMMA UnansweredDenied ==
  ASSUME DeniedInv, TransfersStay, current' => current, NEW w \in Workers,
         answer'[w].code # "REFUSED", \A d \in Workers \ {w} : SameWorker(d)
  PROVE  \A d \in Workers : Excused(d)'
BY DeniedStays DEF Excused

LEMMA HandleDenied ==
  ASSUME DeniedInv, NEW w \in Workers, Handle(w)
  PROVE  \A d \in Workers : Excused(d)'
<1> DEFINE k == Key(upload[w])
<1>1. Types /\ upload[w] \in Uploads /\ k \in Keys /\ answer[w].code # "REFUSED"
      /\ UNCHANGED current
  BY UploadType
  DEF DeniedInv, Excused, IInv, WorkerInv, Handle, Begin, BeginRefused, BeginLost, Put,
      PutCorrupts, PutFails, Finalize, FinalizeRefused, FinalizeLost
<1>2. ASSUME pc[w] = "finalize"
      PROVE  version[w] \in Versions
  BY <1>1 DEF Types
<1>3. ASSUME UNCHANGED transfers
      PROVE  TransfersStay
  BY <1>3 DEF TransfersStay
<1>4. ASSUME TransfersStay, Unavailable(w)
      PROVE  \A d \in Workers : Excused(d)'
  BY <1>1, <1>4, AnsweredDenied DEF Unavailable
<1>5. CASE Begin(w)
  <2>1. TransfersStay /\ transfers'[k] # NoTransfer
    BY <1>1, <1>5, BeginsStay DEF Begin
  <2>2. CASE Withholds(transfers'[k]) /\ Refused(w)
    <3>1. upload'[w] = upload[w] /\ Reply(w, "REFUSED", NoVersion)
      BY <2>2 DEF Refused, Reply
    <3>2. current' => Denied(w)'
      BY <1>1, <2>1, <2>2, <3>1 DEF Denied, Withholds
    <3> QED
      BY <1>1, <2>1, <3>1, <3>2, AnsweredDenied
  <2>3. CASE Goto(w, "put")
    <3>1. \A d \in Workers \ {w} : SameWorker(d)
      BY <1>1, <2>3 DEF Goto, SameWorker, Types
    <3>2. answer'[w].code # "REFUSED"
      BY <1>1, <2>3 DEF Goto
    <3> QED
      BY <1>1, <2>1, <3>1, <3>2, UnansweredDenied
  <2>4. CASE Finalized(w, transfers'[k].version)
    BY <1>1, <2>1, <2>4, AnsweredDenied DEF Finalized
  <2> QED
    BY <1>5, <2>2, <2>3, <2>4 DEF Begin, AfterBegin
<1>6. CASE BeginRefused(w)
  <2>1. TransfersStay /\ UNCHANGED <<transfers, upload>> /\ Reply(w, "REFUSED", NoVersion)
    BY <1>3, <1>6 DEF BeginRefused, Refused, Reply
  <2>2. current => Denied(w)'
    BY <1>6, <2>1 DEF BeginRefused, BeginRefusal, Denied, Known
  <2> QED
    BY <1>1, <2>1, <2>2, AnsweredDenied
<1>7. CASE BeginLost(w)
  <2>1. TransfersStay
    BY <1>1, <1>3, <1>7, BeginsStay DEF BeginLost
  <2> QED
    BY <1>4, <1>7, <2>1 DEF BeginLost
<1>8. CASE Put(w) \/ PutCorrupts(w)
  <2>1. UNCHANGED <<transfers, answer>> /\ \A d \in Workers \ {w} : SameWorker(d)
    BY <1>1, <1>8 DEF Put, PutCorrupts, SameWorker, Types
  <2> QED
    BY <1>1, <1>3, <2>1, UnansweredDenied
<1>9. CASE PutFails(w)
  BY <1>3, <1>4, <1>9 DEF PutFails
<1>10. CASE Finalize(w)
  <2>1. TransfersStay
    BY <1>1, <1>2, <1>10, FinalizesStay DEF Finalize
  <2>2. CASE transfers'[k].state = "rejected" /\ Refused(w)
    <3>1. upload'[w] = upload[w] /\ Reply(w, "REFUSED", NoVersion)
      BY <2>2 DEF Refused, Reply
    <3>2. transfers[k] # NoTransfer
      BY <1>1, <1>10 DEF Finalize, DeniedInv, IInv, WorkerInv, Holds
    <3>3. Denied(w)'
      BY <1>1, <2>1, <2>2, <3>1, <3>2 DEF Denied, TransfersStay
    <3> QED
      BY <1>1, <2>1, <3>1, <3>3, AnsweredDenied
  <2>3. CASE Finalized(w, transfers'[k].version)
    BY <1>1, <2>1, <2>3, AnsweredDenied DEF Finalized
  <2> QED
    BY <1>10, <2>2, <2>3 DEF Finalize
<1>11. CASE FinalizeRefused(w)
  <2>1. /\ TransfersStay /\ UNCHANGED <<transfers, upload, version>>
        /\ Reply(w, "REFUSED", NoVersion)
    BY <1>3, <1>11 DEF FinalizeRefused, Refused, Reply
  <2>2. current => Denied(w)'
    BY <1>11, <2>1 DEF FinalizeRefused, FinalizeRefusal, Denied, State
  <2> QED
    BY <1>1, <2>1, <2>2, AnsweredDenied
<1>12. CASE FinalizeLost(w)
  <2>1. TransfersStay
    BY <1>1, <1>2, <1>3, <1>12, FinalizesStay DEF FinalizeLost
  <2> QED
    BY <1>4, <1>12, <2>1 DEF FinalizeLost
<1> QED
  BY <1>5, <1>6, <1>7, <1>8, <1>9, <1>10, <1>11, <1>12 DEF Handle

LEMMA DeniedStep ==
  ASSUME DeniedInv, [Next]_vars
  PROVE  DeniedInv'
<1>1. IInv' /\ IInv /\ Types
  BY IInvNext DEF DeniedInv, IInv
<1>2. ASSUME UNCHANGED transfers
      PROVE  TransfersStay
  BY <1>2 DEF TransfersStay
<1>3. ASSUME NEW w \in Workers, Start(w) \/ Retry(w) \/ Close(w)
      PROVE  \A d \in Workers : Excused(d)'
  <2>1. /\ UNCHANGED <<transfers, current>>
        /\ \A d \in Workers \ {w} : SameWorker(d)
        /\ answer'[w].code # "REFUSED"
    BY <1>1, <1>3
    DEF Start, Retry, Close, SameWorker, Types, NoAnswer, DeniedInv, Excused
  <2> QED
    BY <1>2, <2>1, UnansweredDenied
<1>4. CASE LateBegin \/ LateFinalize
  <2>1. TransfersStay
    <3>1. CASE \E u \in Uploads : Begins(u)
      BY <1>1, <3>1, BeginsStay
    <3>2. CASE \E f \in late : f.command = "finalize" /\ Finalizes(f.key, f.version)
      <4>1. PICK f \in late : f.command = "finalize" /\ Finalizes(f.key, f.version)
        BY <3>2
      <4>2. f.key \in Keys /\ f.version \in Versions
        BY <1>1, <4>1 DEF IInv, LateInv, Types, LateCalls
      <4> QED
        BY <1>1, <4>1, <4>2, FinalizesStay
    <3> QED
      BY <1>2, <1>4, <3>1, <3>2 DEF LateBegin, LateFinalize
  <2>2. UNCHANGED current /\ \A d \in Workers : SameWorker(d)
    BY <1>4 DEF LateBegin, LateFinalize, SameWorker, workerVars
  <2> QED
    BY <1>1, <2>1, <2>2, DeniedStays DEF DeniedInv
<1>5. CASE Crash
  <2>1. ASSUME NEW d \in Workers
        PROVE  Excused(d)'
    <3>1. SameWorker(d) \/ answer'[d].code # "REFUSED"
      BY <1>1, <1>5 DEF Crash, SameWorker, Types
    <3>2. TransfersStay /\ UNCHANGED current
      BY <1>2, <1>5 DEF Crash
    <3> QED
      BY <3>1, <3>2, DeniedStays DEF Excused
  <2> QED
    BY <1>1, <2>1 DEF DeniedInv
<1>6. CASE Replace \/ UNCHANGED vars
  <2>1. /\ UNCHANGED transfers /\ (current' => current)
        /\ \A d \in Workers : SameWorker(d)
    BY <1>6 DEF Replace, vars, SameWorker, workerVars
  <2> QED
    BY <1>1, <1>2, <2>1, DeniedStays DEF DeniedInv
<1> QED
  BY <1>1, <1>3, <1>4, <1>5, <1>6, HandleDenied DEF Next, DeniedInv

\* While the instance is current, an upload is refused only where its class is
\* unknown, its identity stands for another request, its transfer was rejected, or another PUT of
\* the same bytes was finalized first, whatever was lost, retried, late or
\* restarted (Client.Upload).
THEOREM RefusalsAreForGood == Spec => []RefusedForGood
<1>1. Init => DeniedInv
  BY IInvInit DEF Init, DeniedInv, Excused, NoAnswer
<1>2. DeniedInv => RefusedForGood
  <2> SUFFICES ASSUME DeniedInv, NEW w \in Workers, answer[w].code = "REFUSED", current
               PROVE  LET t == transfers[Key(upload[w])] IN
                        \/ ~Known(w)
                        \/ /\ t # NoTransfer
                           /\ \/ t.binding # Binding(upload[w])
                              \/ t.state = "rejected"
                              \/ /\ t.state = "finalized" /\ t.version # version[w]
                                 /\ store[Key(upload[w])][t.version] = upload[w].bytes
    BY DEF RefusedForGood
  <2> DEFINE k == Key(upload[w])
             t == transfers[k]
  <2>1. Denied(w) /\ upload[w] \in Uploads /\ k \in Keys /\ upload[w].bytes \in Bytes
    BY UploadType DEF DeniedInv, Excused, IInv, WorkerInv
  <2>2. ASSUME t.binding = Binding(upload[w]), t.state = "finalized", t # NoTransfer
        PROVE  store[k][t.version] = upload[w].bytes
    <3>1. PICK b \in Bytes : store[k][t.version] = b /\ DigestOf[b] = t.binding.digest
      BY <2>1, <2>2 DEF DeniedInv, IInv, KeptInv, State
    <3>2. t.binding.digest = DigestOf[upload[w].bytes]
      BY <2>2 DEF Binding
    <3> QED
      BY <2>1, <3>1, <3>2, UploadAssumption
  <2> QED
    BY <2>1, <2>2 DEF Denied
<1> QED
  BY <1>1, <1>2, DeniedStep, PTL DEF Spec
-----------------------------------------------------------------------------
(***************************************************************************)
(* The refinement: the version of a finalized transfer is the value settled. *)
(***************************************************************************)
Final == [k \in Keys |-> IF State(k) = "finalized" THEN transfers[k].version
                         ELSE NoTransfer]

\* At most the transfer of k changes, and a finalized one does not.
Moves(k) ==
  /\ \A j \in Keys \ {k} : transfers'[j] = transfers[j]
  /\ TransfersGrow

LEMMA FinalAt ==
  ASSUME NEW k \in Keys
  PROVE  /\ State(k) = "finalized" => Final[k] = transfers[k].version
         /\ State(k) # "finalized" => Final[k] = NoTransfer
BY DEF Final

LEMMA FinalType ==
  ASSUME Types, NEW k \in Keys
  PROVE  State(k) = "finalized" => transfers[k].version \in Versions \ {NoTransfer}
BY TransferAssumption DEF Types, Transfers, State

LEMMA SettleStep ==
  ASSUME Types, Types', NEW k \in Keys, Moves(k)
  PROVE  \/ UNCHANGED Final
         \/ /\ Final[k] = NoTransfer /\ Final'[k] \in Versions
            /\ Final' = [Final EXCEPT ![k] = Final'[k]]
<1>1. \A j \in Keys \ {k} : Final'[j] = Final[j]
  BY DEF Moves, Final, State
<1>2. CASE State(k) = "finalized"
  <2>1. transfers'[k] = transfers[k]
    BY <1>2 DEF Moves, TransfersGrow, State
  <2>2. Final'[k] = Final[k]
    BY <2>1 DEF Final, State
  <2> QED
    BY <1>1, <2>2 DEF Final
<1>3. CASE State(k) # "finalized" /\ State(k)' # "finalized"
  <2>1. Final'[k] = Final[k]
    BY <1>3 DEF Final
  <2> QED
    BY <1>1, <2>1 DEF Final
<1>4. CASE State(k) # "finalized" /\ State(k)' = "finalized"
  <2>1. Final[k] = NoTransfer /\ Final'[k] = transfers'[k].version
    BY <1>4 DEF Final
  <2>2. transfers'[k].version \in Versions
    BY <1>4 DEF Types, Transfers, State
  <2>3. Final' = [Final EXCEPT ![k] = Final'[k]]
    BY <1>1 DEF Final
  <2> QED
    BY <2>1, <2>2, <2>3
<1> QED
  BY <1>2, <1>3, <1>4

\* A step that settles at most one transfer is a step of the register, with
\* the telling of it when there is one.
LEMMA PromiseStep ==
  ASSUME Types, Types', NEW k \in Keys, Moves(k),
         \/ UNCHANGED told
         \/ /\ transfers'[k] # NoTransfer /\ transfers'[k].state = "finalized"
            /\ told' = told \cup {<<k, transfers'[k].version>>}
  PROVE  [Promise!Next]_<<Final, told>>
<1>1. \/ UNCHANGED Final
      \/ Promise!Settle(k)
  BY SettleStep DEF Promise!Settle, Final
<1>2. \/ UNCHANGED told
      \/ Promise!Tell(k)
  <2>1. ASSUME transfers'[k] # NoTransfer, transfers'[k].state = "finalized"
        PROVE  Final'[k] = transfers'[k].version /\ Final'[k] # NoTransfer
    BY <2>1, TransferAssumption DEF Final, Types, Transfers, State
  <2> QED
    BY <2>1 DEF Promise!Tell, Final
<1> QED
  BY <1>1, <1>2 DEF Promise!Next, Final
LEMMA BeginsMoves ==
  ASSUME Types, KeptInv, NEW u \in Uploads, Begins(u), UNCHANGED store
  PROVE  Key(u) \in Keys /\ Moves(Key(u))
<1>1. Key(u) \in Keys /\ TransfersGrow
  BY UploadType, BeginsInv
<1> QED
  BY <1>1 DEF Begins, Moves, Types

LEMMA BeginsThere ==
  ASSUME Types, KeptInv, NEW u \in Uploads, Begins(u), UNCHANGED store
  PROVE  transfers'[Key(u)] # NoTransfer
<1>1. Key(u) \in Keys /\ TransfersGrow
  BY UploadType, BeginsInv
<1>2. [binding |-> Binding(u), state |-> "begun", version |-> NoVersion] # NoTransfer
  BY UploadType, TransferAssumption DEF Transfers, Versions, NoVersion
<1> QED
  BY <1>1, <1>2 DEF Begins, TransfersGrow, Types

LEMMA FinalizesMoves ==
  ASSUME Types, KeptInv, NEW k \in Keys, NEW v, Stored(k, v), Finalizes(k, v),
         UNCHANGED store
  PROVE  Moves(k)
BY FinalizesInv DEF Finalizes, Moves, Types

LEMMA StillMoves ==
  ASSUME UNCHANGED transfers, NEW k \in Keys
  PROVE  Moves(k)
BY DEF Moves, TransfersGrow

\* A step that moves no transfer and tells nobody.
LEMMA Stutters ==
  ASSUME UNCHANGED <<transfers, told>>
  PROVE  [Promise!Next]_<<Final, told>>
BY DEF Final, State

LEMMA BeginPromise ==
  ASSUME IInv, IInv', NEW w \in Workers, Begin(w) \/ BeginLost(w)
  PROVE  [Promise!Next]_<<Final, told>>
<1> DEFINE u == upload[w]
<1>1. u \in Uploads /\ Types /\ Types' /\ KeptInv /\ UNCHANGED store
  BY DEF IInv, WorkerInv, Begin, BeginLost
<1>2. CASE Begin(w)
  <2>1. Begins(u)
    BY <1>2 DEF Begin
  <2>2. Key(u) \in Keys /\ Moves(Key(u)) /\ transfers'[Key(u)] # NoTransfer
    BY <1>1, <2>1, BeginsMoves, BeginsThere
  <2>3. \/ UNCHANGED told
        \/ /\ transfers'[Key(u)] # NoTransfer /\ transfers'[Key(u)].state = "finalized"
           /\ told' = told \cup {<<Key(u), transfers'[Key(u)].version>>}
    BY <1>2, <2>2 DEF Begin, AfterBegin, Finalized, Reply, State
  <2> QED
    BY <1>1, <2>2, <2>3, PromiseStep
<1>3. CASE BeginLost(w)
  <2>1. CASE Begins(u)
    BY <1>1, <1>3, <2>1, BeginsMoves, PromiseStep DEF BeginLost
  <2>2. CASE UNCHANGED transfers
    BY <1>3, <2>2, Stutters DEF BeginLost
  <2> QED
    BY <1>3, <2>1, <2>2 DEF BeginLost
<1> QED
  BY <1>2, <1>3

LEMMA FinalizePromise ==
  ASSUME IInv, IInv', NEW w \in Workers, Finalize(w) \/ FinalizeLost(w)
  PROVE  [Promise!Next]_<<Final, told>>
<1> DEFINE k == Key(upload[w])
<1>1. /\ k \in Keys /\ Stored(k, version[w])
      /\ Types /\ Types' /\ KeptInv /\ UNCHANGED store
  BY UploadType DEF IInv, WorkerInv, Finalize, FinalizeLost
<1>2. CASE Finalize(w)
  <2>1. Finalizes(k, version[w])
    BY <1>2 DEF Finalize
  <2>2. Moves(k) /\ transfers'[k] # NoTransfer
    BY <1>1, <2>1, FinalizesMoves, FinalizesInv
  <2>3. \/ UNCHANGED told
        \/ /\ transfers'[k] # NoTransfer /\ transfers'[k].state = "finalized"
           /\ told' = told \cup {<<k, transfers'[k].version>>}
    BY <1>2, <2>2 DEF Finalize, Finalized, Reply, State
  <2> QED
    BY <1>1, <2>2, <2>3, PromiseStep
<1>3. CASE FinalizeLost(w)
  <2>1. CASE Finalizes(k, version[w])
    BY <1>1, <1>3, <2>1, FinalizesMoves, PromiseStep DEF FinalizeLost
  <2>2. CASE UNCHANGED transfers
    BY <1>3, <2>2, Stutters DEF FinalizeLost
  <2> QED
    BY <1>3, <2>1, <2>2 DEF FinalizeLost
<1> QED
  BY <1>2, <1>3

LEMMA LatePromise ==
  ASSUME IInv, IInv', LateBegin \/ LateFinalize
  PROVE  [Promise!Next]_<<Final, told>>
<1>1. Types /\ Types' /\ KeptInv /\ UNCHANGED <<store, told>>
  BY DEF IInv, LateBegin, LateFinalize
<1>2. CASE UNCHANGED transfers
  BY <1>1, <1>2, Stutters
<1>3. CASE \E u \in Uploads : Begins(u)
  BY <1>1, <1>3, BeginsMoves, PromiseStep
<1>4. CASE \E f \in late : f.command = "finalize" /\ Finalizes(f.key, f.version)
  <2>1. PICK f \in late : f.command = "finalize" /\ Finalizes(f.key, f.version)
    BY <1>4
  <2>2. f.key \in Keys /\ Stored(f.key, f.version)
    BY <2>1 DEF IInv, LateInv
  <2> QED
    BY <1>1, <2>1, <2>2, FinalizesMoves, PromiseStep
<1> QED
  BY <1>2, <1>3, <1>4 DEF LateBegin, LateFinalize

LEMMA NextPromise == IInv /\ IInv' /\ [Next]_vars => [Promise!Next]_<<Final, told>>
<1> SUFFICES ASSUME IInv, IInv', [Next]_vars
             PROVE  [Promise!Next]_<<Final, told>>
  OBVIOUS
<1>1. ASSUME NEW w \in Workers,
             Start(w) \/ Retry(w) \/ Close(w) \/ BeginRefused(w) \/ Put(w)
               \/ PutCorrupts(w) \/ PutFails(w) \/ FinalizeRefused(w)
      PROVE  UNCHANGED <<transfers, told>>
  BY <1>1 DEF Start, Retry, Close, BeginRefused, Put, PutCorrupts, PutFails,
              FinalizeRefused
<1>2. Crash \/ Replace \/ UNCHANGED vars => UNCHANGED <<transfers, told>>
  BY DEF Crash, Replace, vars, workerVars
<1> QED
  BY <1>1, <1>2, Stutters, BeginPromise, FinalizePromise, LatePromise DEF Next, Handle

\* The flow is a write-once register for each command identity: one object
\* version is finalized and every caller told of it is told that one, through
\* lost answers, late calls, retries and restarts (Client.Upload's reentry).
THEOREM WriteOnceImplemented == Spec => ImplementsWriteOnce
<1>1. Init => Promise!Init
  BY DEF Init, Promise!Init, State
<1>2. IInv /\ IInv' /\ [Next]_vars => [Promise!Next]_<<Final, told>>
  BY NextPromise
<1> QED
  BY <1>1, <1>2, Inductive, PTL DEF Spec, ImplementsWriteOnce, Promise!Spec, Final
=============================================================================
