------------------------------- MODULE Transfer -------------------------------
(***************************************************************************)
(* The artifact flow (Client.Upload): BeginTransfer at Control, the one PUT  *)
(* the capability authorizes, FinalizeTransfer naming the object version the *)
(* store assigned.  The trusted harness retries an upload whose answer was   *)
(* retryable, several uploads run at once, every answer may be lost, a call  *)
(* this process gave up on may still be handled, and the process may be      *)
(* killed and restarted between any two steps.                              *)
(*                                                                          *)
(* Control and the store are external.  Control keeps one transfer per       *)
(* command identity: the same command under the same request digest reenters *)
(* it, under another it is refused.                                         *)
(***************************************************************************)
EXTENDS Naturals, Sequences

CONSTANTS
  Workers,     \* uploads that can be in progress at the same time
  Uploads,     \* what the harness uploads: class, media type and content
  NoUpload,    \* a worker without an upload
  Classes,     \* the artifact classes there are
  Bytes,       \* contents
  Corrupt,     \* what the store may hold instead of a content
  DigestOf,    \* the digest of every content
  PrefixOf,    \* the part of each digest that a command identity carries
  NoTransfer,  \* Control has no transfer under a command identity
  MaxFaults    \* lost answers, timeouts and restarts in one behaviour

ASSUME UploadAssumption ==
  /\ Uploads \subseteq [class : STRING, media : STRING, bytes : Bytes]
  /\ NoUpload \notin Uploads
  /\ Corrupt \notin Bytes
  /\ DigestOf = [b \in Bytes |-> DigestOf[b]]
  /\ \A b, c \in Bytes : DigestOf[b] = DigestOf[c] => b = c
ASSUME FaultAssumption == MaxFaults \in Nat

VARIABLES
  pc,         \* how far each upload is
  upload,     \* what each worker uploads
  version,    \* the object version its PUT was assigned
  answer,     \* the answer written to the harness
  transfers,  \* Control's transfer under each command identity
  store,      \* the store's object versions under each transfer's key
  current,    \* Control holds this instance to be the current one
  late,       \* calls to Control that outlived the request that sent them
  faults,     \* faults so far
  told        \* history: what was answered as finalized

workerVars == <<pc, upload, version, answer>>
vars == <<workerVars, transfers, store, current, late, faults, told>>

-----------------------------------------------------------------------------
\* The command identity of BeginTransfer, and what its request digest covers.
Key(u) == <<u.class, PrefixOf[DigestOf[u.bytes]]>>
\* Mutant: the request digest does not cover the media type.
BindingWithoutMedia(u) ==
  [class |-> u.class, digest |-> DigestOf[u.bytes], media |-> "any"]

Binding(u) == [class |-> u.class, digest |-> DigestOf[u.bytes], media |-> u.media]

Keys == {Key(u) : u \in Uploads}
Bindings == {Binding(u) : u \in Uploads}
Versions == Nat

NoVersion == 0
Transfers ==
  [binding : Bindings, state : {"begun", "finalized", "rejected"},
   version : Versions]

ASSUME TransferAssumption == NoTransfer \notin Transfers \cup Versions

LateCalls ==
  [command : {"begin"}, upload : Uploads]
    \cup [command : {"finalize"}, key : Keys, version : Versions]

\* REFUSED is the 409 of a refusal, and the 400 of an unknown class.
Codes == {"NONE", "OK", "REFUSED", "DEPENDENCY_UNAVAILABLE"}
Answer == [code : Codes, version : Versions]
NoAnswer == [code |-> "NONE", version |-> NoVersion]

State(k) == IF transfers[k] = NoTransfer THEN "none" ELSE transfers[k].state

Reply(w, code, v) ==
  /\ pc' = [pc EXCEPT ![w] = "done"]
  /\ answer' = [answer EXCEPT ![w] = [code |-> code, version |-> v]]
  /\ UNCHANGED <<upload, version>>

Unavailable(w) == Reply(w, "DEPENDENCY_UNAVAILABLE", NoVersion)
Refused(w) == Reply(w, "REFUSED", NoVersion)
Finalized(w, v) ==
  /\ Reply(w, "OK", v)
  /\ told' = told \cup {<<Key(upload[w]), v>>}

Goto(w, to) == pc' = [pc EXCEPT ![w] = to] /\ UNCHANGED <<upload, version, answer>>

Fault == faults < MaxFaults /\ faults' = faults + 1

-----------------------------------------------------------------------------
(***************************************************************************)
(* The harness: an upload is requested while the instance is authorized,    *)
(* requested again after a retryable answer, and closed after any other.    *)
(***************************************************************************)
Start(w) ==
  /\ pc[w] = "idle" /\ current
  /\ \E u \in Uploads : upload' = [upload EXCEPT ![w] = u]
  /\ pc' = [pc EXCEPT ![w] = "begin"]
  /\ UNCHANGED <<version, answer, transfers, store, current, late, faults, told>>

Retry(w) ==
  /\ pc[w] = "done" /\ answer[w].code = "DEPENDENCY_UNAVAILABLE" /\ current
  /\ pc' = [pc EXCEPT ![w] = "begin"]
  /\ version' = [version EXCEPT ![w] = NoVersion]
  /\ answer' = [answer EXCEPT ![w] = NoAnswer]
  /\ UNCHANGED <<upload, transfers, store, current, late, faults, told>>

Close(w) ==
  /\ pc[w] = "done"
  /\ answer[w].code = "DEPENDENCY_UNAVAILABLE" => ~current
  /\ pc' = [pc EXCEPT ![w] = "idle"]
  /\ upload' = [upload EXCEPT ![w] = NoUpload]
  /\ version' = [version EXCEPT ![w] = NoVersion]
  /\ answer' = [answer EXCEPT ![w] = NoAnswer]
  /\ UNCHANGED <<transfers, store, current, late, faults, told>>

-----------------------------------------------------------------------------
(***************************************************************************)
(* BeginTransfer.                                                           *)
(***************************************************************************)
\* Control's handling of the command: the transfer is there afterwards, or
\* the command is refused because it stands for another request.
Begins(u) ==
  \/ /\ transfers[Key(u)] = NoTransfer /\ current
     /\ transfers' = [transfers EXCEPT ![Key(u)] =
          [binding |-> Binding(u), state |-> "begun", version |-> NoVersion]]
  \/ /\ transfers[Key(u)] # NoTransfer
     /\ transfers[Key(u)].binding = Binding(u)
     /\ UNCHANGED transfers

\* Mutants: an existing transfer is answered as finalized whatever its state,
\* or refused; one without a capability is neither answered nor refused.
AfterBeginExisting(w) ==
  LET t == transfers'[Key(upload[w])] IN
    IF transfers[Key(upload[w])] # NoTransfer THEN Finalized(w, t.version)
    ELSE Goto(w, "put") /\ UNCHANGED told

AfterBeginTaken(w) ==
  LET t == transfers'[Key(upload[w])] IN
    \/ t.state = "finalized" /\ Finalized(w, t.version)
    \/ /\ t.state = "rejected" \/ transfers[Key(upload[w])] # NoTransfer
       /\ Refused(w) /\ UNCHANGED told
    \/ /\ t.state = "begun" /\ transfers[Key(upload[w])] = NoTransfer
       /\ Goto(w, "put") /\ UNCHANGED told

AfterBeginNoCapability(w) ==
  LET t == transfers'[Key(upload[w])] IN
    \/ t.state = "finalized" /\ Finalized(w, t.version)
    \/ t.state = "begun" /\ Goto(w, "put") /\ UNCHANGED told

\* Control issues the upload capability of a begun transfer; it may withhold
\* it once the instance is not current, and has none for a rejected one.
Issues(t) == t.state = "begun"
Withholds(t) == t.state = "rejected" \/ (t.state = "begun" /\ ~current)

\* A finalized transfer is answered as it is; any other without a capability
\* is refused, and with one the PUT is next.
AfterBegin(w) ==
  LET t == transfers'[Key(upload[w])] IN
    \/ t.state = "finalized" /\ Finalized(w, t.version)
    \/ t.state # "finalized" /\ Withholds(t) /\ Refused(w) /\ UNCHANGED told
    \/ t.state # "finalized" /\ Issues(t) /\ Goto(w, "put") /\ UNCHANGED told

Known(w) == upload[w].class \in Classes

Begin(w) ==
  /\ pc[w] = "begin" /\ Known(w)
  /\ Begins(upload[w])
  /\ AfterBegin(w)
  /\ UNCHANGED <<store, current, late, faults>>

BeginRefusal(u) ==
  \/ transfers[Key(u)] = NoTransfer /\ ~current
  \/ transfers[Key(u)] # NoTransfer /\ transfers[Key(u)].binding # Binding(u)

\* A class there is none of is refused without Control.
BeginRefused(w) ==
  /\ pc[w] = "begin"
  /\ ~Known(w) \/ BeginRefusal(upload[w])
  /\ Refused(w)
  /\ UNCHANGED <<transfers, store, current, late, faults, told>>

\* Control cannot be asked, its answer is lost, or the call times out and
\* may be handled later.
BeginLost(w) ==
  /\ pc[w] = "begin" /\ Known(w)
  /\ Fault
  /\ \/ UNCHANGED <<transfers, late>>
     \/ Begins(upload[w]) /\ UNCHANGED late
     \/ /\ late' = late \cup {[command |-> "begin", upload |-> upload[w]]}
        /\ UNCHANGED transfers
  /\ Unavailable(w)
  /\ UNCHANGED <<store, current, told>>

LateBegin ==
  /\ \E u \in Uploads :
       LET call == [command |-> "begin", upload |-> u] IN
         /\ call \in late
         /\ late' = late \ {call}
         /\ \/ Begins(u)
            \/ BeginRefusal(u) /\ UNCHANGED transfers
  /\ UNCHANGED <<workerVars, store, current, faults, told>>

-----------------------------------------------------------------------------
(***************************************************************************)
(* The PUT.                                                                 *)
(***************************************************************************)
Stores(k, b) == store' = [store EXCEPT ![k] = Append(@, b)]

\* Mutant: an answer without an object version goes on to the finalization.
PutUnversioned(w) ==
  /\ pc[w] = "put"
  /\ Stores(Key(upload[w]), upload[w].bytes)
  /\ pc' = [pc EXCEPT ![w] = "finalize"]
  /\ UNCHANGED <<upload, version, answer, transfers, current, late, faults, told>>

Put(w) ==
  /\ pc[w] = "put"
  /\ LET k == Key(upload[w]) IN
       /\ Stores(k, upload[w].bytes)
       /\ version' = [version EXCEPT ![w] = Len(store[k]) + 1]
  /\ pc' = [pc EXCEPT ![w] = "finalize"]
  /\ UNCHANGED <<upload, answer, transfers, current, late, faults, told>>

\* The store keeps something else under the version it answers.
PutCorrupts(w) ==
  /\ pc[w] = "put"
  /\ Fault
  /\ LET k == Key(upload[w]) IN
       /\ Stores(k, Corrupt)
       /\ version' = [version EXCEPT ![w] = Len(store[k]) + 1]
  /\ pc' = [pc EXCEPT ![w] = "finalize"]
  /\ UNCHANGED <<upload, answer, transfers, current, late, told>>

\* A transport error, a status outside 2xx or an answer without a version,
\* whether or not the store kept the object.
PutFails(w) ==
  /\ pc[w] = "put"
  /\ Fault
  /\ Stores(Key(upload[w]), upload[w].bytes) \/ UNCHANGED store
  /\ Unavailable(w)
  /\ UNCHANGED <<transfers, current, late, told>>

-----------------------------------------------------------------------------
(***************************************************************************)
(* FinalizeTransfer.                                                        *)
(***************************************************************************)
\* Control finalizes a begun transfer of the current instance if the named
\* version holds the declared content, and rejects it otherwise; the command
\* repeated for the same version is answered as before.
Finalizes(k, v) ==
  \/ /\ State(k) = "begun" /\ current
     /\ LET right == \E b \in Bytes : /\ store[k][v] = b
                                      /\ DigestOf[b] = transfers[k].binding.digest
        IN transfers' = [transfers EXCEPT
             ![k].state = IF right THEN "finalized" ELSE "rejected",
             ![k].version = v]
  \/ /\ State(k) \in {"finalized", "rejected"}
     /\ transfers[k].version = v
     /\ UNCHANGED transfers

\* The command was used for another version, or the instance is not current.
FinalizeRefusal(k, v) ==
  \/ State(k) = "begun" /\ ~current
  \/ State(k) \in {"finalized", "rejected"} /\ transfers[k].version # v

Finalize(w) ==
  /\ pc[w] = "finalize"
  /\ LET k == Key(upload[w]) IN
       /\ Finalizes(k, version[w])
       /\ \/ /\ transfers'[k].state = "finalized"
             /\ Finalized(w, transfers'[k].version)
          \/ /\ transfers'[k].state = "rejected"
             /\ Refused(w) /\ UNCHANGED told
  /\ UNCHANGED <<store, current, late, faults>>

FinalizeRefused(w) ==
  /\ pc[w] = "finalize"
  /\ FinalizeRefusal(Key(upload[w]), version[w])
  /\ Refused(w)
  /\ UNCHANGED <<transfers, store, current, late, faults, told>>

\* As for BeginLost.
FinalizeLost(w) ==
  /\ pc[w] = "finalize"
  /\ Fault
  /\ \/ UNCHANGED <<transfers, late>>
     \/ Finalizes(Key(upload[w]), version[w]) /\ UNCHANGED late
     \/ /\ late' = late \cup {[command |-> "finalize", key |-> Key(upload[w]),
                               version |-> version[w]]}
        /\ UNCHANGED transfers
  /\ Unavailable(w)
  /\ UNCHANGED <<store, current, told>>

LateFinalize ==
  /\ \E f \in {call \in late : call.command = "finalize"} :
       /\ late' = late \ {f}
       /\ \/ Finalizes(f.key, f.version)
          \/ FinalizeRefusal(f.key, f.version) /\ UNCHANGED transfers
  /\ UNCHANGED <<workerVars, store, current, faults, told>>

-----------------------------------------------------------------------------
\* The process is killed and restarted: every upload in progress ends for the
\* harness as a broken connection.  Nothing of it was kept anywhere.
Crash ==
  /\ Fault
  /\ \E w \in Workers : pc[w] \notin {"idle", "done"}
  /\ pc' = [w \in Workers |-> IF pc[w] = "idle" THEN "idle" ELSE "done"]
  /\ answer' = [w \in Workers |->
       IF pc[w] \in {"idle", "done"} THEN answer[w]
       ELSE [code |-> "DEPENDENCY_UNAVAILABLE", version |-> NoVersion]]
  /\ UNCHANGED <<upload, version, transfers, store, current, late, told>>

\* Another instance becomes the current one, for good.
Replace ==
  /\ current
  /\ current' = FALSE
  /\ UNCHANGED <<workerVars, transfers, store, late, faults, told>>

Init ==
  /\ pc = [w \in Workers |-> "idle"]
  /\ upload = [w \in Workers |-> NoUpload]
  /\ version = [w \in Workers |-> NoVersion]
  /\ answer = [w \in Workers |-> NoAnswer]
  /\ transfers = [k \in Keys |-> NoTransfer]
  /\ store = [k \in Keys |-> <<>>]
  /\ current = TRUE
  /\ late = {}
  /\ faults = 0
  /\ told = {}

Handle(w) ==
  \/ Begin(w) \/ BeginRefused(w) \/ BeginLost(w)
  \/ Put(w) \/ PutCorrupts(w) \/ PutFails(w)
  \/ Finalize(w) \/ FinalizeRefused(w) \/ FinalizeLost(w)

Next ==
  \/ \E w \in Workers : Start(w) \/ Retry(w) \/ Close(w) \/ Handle(w)
  \/ LateBegin \/ LateFinalize \/ Crash \/ Replace

Spec == Init /\ [][Next]_vars

\* Handlers run on their own goroutines with every call bounded by a timeout,
\* and the harness retries a retryable answer.
FairSpec == Spec /\ \A w \in Workers : WF_vars(Handle(w)) /\ WF_vars(Retry(w))

-----------------------------------------------------------------------------
\* The workers, Control's transfers and the store keep their types, and what a
\* worker is to finalize is a version the store assigned.
TypeOK ==
  /\ \A w \in Workers :
       pc[w] = "finalize" => version[w] \in 1..Len(store[Key(upload[w])])
  /\ pc \in [Workers -> {"idle", "begin", "put", "finalize", "done"}]
  /\ upload \in [Workers -> Uploads \cup {NoUpload}]
  /\ version \in [Workers -> Versions]
  /\ answer \in [Workers -> Answer]
  /\ transfers \in [Keys -> Transfers \cup {NoTransfer}]
  /\ store \in [Keys -> Seq(Bytes \cup {Corrupt})]
  /\ current \in BOOLEAN
  /\ late \subseteq LateCalls
  /\ faults \in 0..MaxFaults
  /\ told \subseteq Keys \X Versions

\* An upload answered as finalized is the caller's own: Control holds a
\* finalized transfer of that class, digest and media type, and the version
\* answered holds exactly the uploaded bytes, whichever worker, retry or
\* earlier upload put them there (Client.Upload's command identity and PUT).
AnsweredAsRequested ==
  \A w \in Workers :
    answer[w].code = "OK" =>
      LET k == Key(upload[w]) IN
        /\ transfers[k] =
             [binding |-> Binding(upload[w]), state |-> "finalized",
              version |-> answer[w].version]
        /\ transfers[k].binding.digest = DigestOf[upload[w].bytes]
        /\ transfers[k].binding.media = upload[w].media
        /\ store[k][answer[w].version] = upload[w].bytes

\* An upload that could go on is not refused: while the instance is current
\* it is only for an unknown class, because its identity stands for another
\* request, its transfer was rejected, or another PUT of the very same bytes was
\* finalized before its own (asked again, that one is answered as finalized).
\* No lost answer, retry, late call or restart does it (Client.Upload).
RefusedForGood ==
  \A w \in Workers :
    answer[w].code = "REFUSED" /\ current =>
      LET t == transfers[Key(upload[w])] IN
        \/ ~Known(w)
        \/ /\ t # NoTransfer
           /\ \/ t.binding # Binding(upload[w])
              \/ t.state = "rejected"
              \/ /\ t.state = "finalized" /\ t.version # version[w]
                 /\ store[Key(upload[w])][t.version] = upload[w].bytes

\* Every upload ends: retried through lost answers, failed PUTs, timeouts and
\* restarts it reaches an answer that is not retryable, unless the instance
\* is replaced first.
UploadSettles ==
  \A w \in Workers :
    pc[w] = "begin" ~>
      pc[w] = "done" /\ (answer[w].code \in {"OK", "REFUSED"} \/ ~current)

Promise == INSTANCE WriteOnce WITH
  Values <- Versions,
  Unsettled <- NoTransfer,
  settled <- [k \in Keys |-> IF State(k) = "finalized"
                             THEN transfers[k].version ELSE NoTransfer]

\* The flow is a write-once register for each command identity: one object
\* version is finalized, and every caller told of a finalized transfer is
\* told of that version (Client.Upload's reentry and its answer).
ImplementsWriteOnce == Promise!Spec
=============================================================================
