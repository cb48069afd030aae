------------------------------- MODULE Reloader -------------------------------
(***************************************************************************)
(* The workload identity of the process (internal/identity: Reloader,        *)
(* Material).  Three mounted files are polled: a pass over their bytes tells  *)
(* whether anything changed, a second pass loads and validates them, and     *)
(* the material is published and announced.  The mount is replaced as one    *)
(* directory, but each file is read on its own, so a replacement may fall    *)
(* between any two reads.                                                   *)
(***************************************************************************)
EXTENDS Naturals, Sequences

CONSTANTS
  Callers,      \* who calls Reload: the poller, and operators
  poller,       \* the goroutine of Start
  Generations,  \* file sets that may be mounted
  NoMount,      \* the files are missing or unreadable
  Pairs,        \* key pairs
  Certs,        \* certificates a bundle may hold
  Content,      \* the certificate, key and CA bundle of each generation
  Expired,      \* key pairs whose leaf is outside its validity
  Authorities,  \* certificates that are CAs
  MaxSwaps      \* how often the mount is replaced

ASSUME MountAssumption ==
  /\ NoMount \notin Generations
  /\ Content \in [Generations -> [cert : Pairs, key : Pairs, ca : SUBSET Certs]]
  /\ MaxSwaps \in Nat
ASSUME CallerAssumption == poller \in Callers

VARIABLES
  disk,     \* the generation mounted now
  current,  \* Reloader.current
  reload,   \* the Reload call of each caller
  failing,  \* Reloader.failures > 0
  stop,     \* how far Stop is
  swaps     \* replacements so far

reloaderVars == <<disk, current, reload, failing, stop, swaps>>

-----------------------------------------------------------------------------
\* The three files in the order both passes read them; a list of generations
\* says what was mounted at each read, and so which bytes were read.
Material(read) ==
  [cert |-> Content[read[1]].cert, key |-> Content[read[2]].key,
   ca |-> Content[read[3]].ca]

Files(g) == Material(<<g, g, g>>)

\* Parse: the key matches the certificate (is of its pair), the leaf is
\* within its validity, the bundle holds a certificate, and only CAs.
Valid(m) ==
  /\ m.cert = m.key /\ m.cert \notin Expired
  /\ m.ca # {} /\ m.ca \subseteq Authorities

Materials ==
  {m \in [cert : Pairs, key : Pairs, ca : SUBSET Certs] : Valid(m)}

\* Mutant: the two materials are exchanged.
AddedRoots(previous, m) == m.ca \ previous.ca

RetiredRoots(previous, m) == previous.ca \ m.ca

Step(p, to) == reload' = [reload EXCEPT ![p].step = to, ![p].read = <<>>]

-----------------------------------------------------------------------------
(***************************************************************************)
(* Reload.                                                                  *)
(***************************************************************************)
\* The poller's tick, or an operator's call.  The poller's select may still
\* choose the tick after it was cancelled, until it has returned.
Reload(p) ==
  /\ reload[p].step = "idle"
  /\ p = poller => stop \in {"no", "cancelled"}
  /\ reload' = [reload EXCEPT ![p] =
       [step |-> "digest", read |-> <<>>, cur |-> current]]
  /\ UNCHANGED <<disk, current, failing, stop, swaps>>

Read(p) ==
  /\ reload[p].step \in {"digest", "load"} /\ Len(reload[p].read) < 3
  /\ disk # NoMount
  /\ reload' = [reload EXCEPT ![p].read = Append(@, disk)]
  /\ UNCHANGED <<disk, current, failing, stop, swaps>>

\* Mutant: a missing file is waited for.
ReadWaits(p) ==
  /\ reload[p].step \in {"digest", "load"} /\ Len(reload[p].read) < 3
  /\ disk = NoMount
  /\ failing' = TRUE
  /\ UNCHANGED <<disk, current, reload, stop, swaps>>

ReadFails(p) ==
  /\ reload[p].step \in {"digest", "load"} /\ Len(reload[p].read) < 3
  /\ disk = NoMount
  /\ Step(p, "idle")
  /\ failing' = TRUE
  /\ UNCHANGED <<disk, current, stop, swaps>>

DigestRead(p) == reload[p].step = "digest" /\ Len(reload[p].read) = 3
Loaded(p) == reload[p].step = "load" /\ Len(reload[p].read) = 3

\* Mutant: the bundle is not compared.
SamePair(p) ==
  /\ Material(reload[p].read).cert = reload[p].cur.cert
  /\ Material(reload[p].read).key = reload[p].cur.key

SameDigest(p) == Material(reload[p].read) = reload[p].cur

Unchanged(p) ==
  /\ DigestRead(p) /\ SameDigest(p)
  /\ Step(p, "idle")
  /\ UNCHANGED <<disk, current, failing, stop, swaps>>

Changed(p) ==
  /\ DigestRead(p) /\ ~SameDigest(p)
  /\ Step(p, "load")
  /\ UNCHANGED <<disk, current, failing, stop, swaps>>

Rejected(p) ==
  /\ Loaded(p) /\ ~Valid(Material(reload[p].read))
  /\ Step(p, "idle")
  /\ failing' = TRUE
  /\ UNCHANGED <<disk, current, stop, swaps>>

\* Mutant: what was read is published without validation.
PublishUnvalidated(p) ==
  /\ Loaded(p)
  /\ current' = Material(reload[p].read)
  /\ failing' = FALSE
  /\ reload' = [reload EXCEPT ![p].step = "notify"]
  /\ UNCHANGED <<disk, stop, swaps>>

Publish(p) ==
  /\ Loaded(p) /\ Valid(Material(reload[p].read))
  /\ current' = Material(reload[p].read)
  /\ failing' = FALSE
  /\ reload' = [reload EXCEPT ![p].step = "notify"]
  /\ UNCHANGED <<disk, stop, swaps>>

\* The callbacks are run with the previous and the new material.
Notify(p) ==
  /\ reload[p].step = "notify"
  /\ Step(p, "idle")
  /\ UNCHANGED <<disk, current, failing, stop, swaps>>

-----------------------------------------------------------------------------
\* Stop cancels the poller and waits for it to return.
Cancel ==
  /\ stop = "no"
  /\ stop' = "cancelled"
  /\ UNCHANGED <<disk, current, reload, failing, swaps>>

PollerReturns ==
  /\ stop = "cancelled" /\ reload[poller].step = "idle"
  /\ stop' = "returned"
  /\ UNCHANGED <<disk, current, reload, failing, swaps>>

\* Mutant: Stop does not wait for the poller.
StopAtOnce ==
  /\ stop \in {"cancelled", "returned"}
  /\ stop' = "stopped"
  /\ UNCHANGED <<disk, current, reload, failing, swaps>>

StopReturns ==
  /\ stop = "returned"
  /\ stop' = "stopped"
  /\ UNCHANGED <<disk, current, reload, failing, swaps>>

Swap ==
  /\ swaps < MaxSwaps
  /\ disk' \in (Generations \cup {NoMount}) \ {disk}
  /\ swaps' = swaps + 1
  /\ UNCHANGED <<current, reload, failing, stop>>

\* New loads the files once and refuses what is not valid.
ReloaderInit ==
  /\ disk \in {g \in Generations : Valid(Files(g))}
  /\ current = Files(disk)
  /\ reload = [p \in Callers |-> [step |-> "idle", read |-> <<>>, cur |-> current]]
  /\ failing = FALSE
  /\ stop = "no"
  /\ swaps = 0

\* The steps of a Reload call up to the callbacks.
Reloading(p) ==
  Read(p) \/ ReadFails(p) \/ Unchanged(p) \/ Changed(p) \/ Rejected(p) \/ Publish(p)

World == Cancel \/ PollerReturns \/ StopReturns \/ Swap

ReloaderNext ==
  (\E p \in Callers : Reload(p) \/ Reloading(p) \/ Notify(p)) \/ World

ReloaderSpec == ReloaderInit /\ [][ReloaderNext]_reloaderVars

\* The ticker fires, a Reload call goes on, and the poller, which its select
\* gives the choice between the tick and the cancellation again and again,
\* returns at last.
ReloaderFairSpec ==
  /\ ReloaderSpec
  /\ WF_reloaderVars(Reload(poller))
  /\ \A p \in Callers : WF_reloaderVars(Reloading(p) \/ Notify(p))
  /\ SF_reloaderVars(PollerReturns)
  /\ WF_reloaderVars(StopReturns)

-----------------------------------------------------------------------------
ReloadCall ==
  [step : {"idle", "digest", "load", "notify"}, read : Seq(Generations),
   cur : Materials]

\* The material in force is always valid, whatever was mounted and whenever
\* it was replaced; a call has read at most the three files.
ReloaderTypeOK ==
  /\ disk \in Generations \cup {NoMount}
  /\ current \in Materials
  /\ reload \in [Callers -> ReloadCall]
  /\ \A p \in Callers :
       /\ Len(reload[p].read) <= 3
       /\ reload[p].step = "notify" => Len(reload[p].read) = 3
  /\ failing \in BOOLEAN
  /\ stop \in {"no", "cancelled", "returned", "stopped"}
  /\ swaps \in 0..MaxSwaps

\* The material in force becomes the mounted one: once a valid file set stays
\* mounted and the poller is not stopped, every later read of the material
\* finds that set, after whatever torn or rejected reads came before
\* (Reloader.Reload).
Converges ==
  \A g \in {h \in Generations : Valid(Files(h))} :
    <>[](disk = g /\ stop = "no") => <>[](current = Files(g))

\* After Stop returned the poller is not reloading: nothing publishes or runs
\* callbacks behind its back (Reloader.Stop).
StoppedIsQuiet == stop = "stopped" => reload[poller].step = "idle"

\* Stop does return (Reloader.Stop waits for the poller's goroutine).
StopEnds == stop = "cancelled" ~> stop = "stopped"
=============================================================================
