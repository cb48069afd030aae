---------------------------- MODULE Reloader_proofs ----------------------------
(***************************************************************************)
(* Proofs about the Reloader: only a valid material is ever in force, and    *)
(* the poller is quiet after Stop, for any callers, mounted sets and        *)
(* replacements.                                                            *)
(***************************************************************************)
EXTENDS Reloader, TLAPS

-----------------------------------------------------------------------------
(***************************************************************************)
(* The Reloader.                                                            *)
(***************************************************************************)
LEMMA MaterialType ==
  ASSUME NEW read \in Seq(Generations), Len(read) = 3, Valid(Material(read))
  PROVE  Material(read) \in Materials
<1>1. read[1] \in Generations /\ read[2] \in Generations /\ read[3] \in Generations
  OBVIOUS
<1>2. Material(read) \in [cert : Pairs, key : Pairs, ca : SUBSET Certs]
  BY <1>1, MountAssumption DEF Material
<1> QED
  BY <1>2 DEF Materials

LEMMA ReloaderInitType == ReloaderInit => ReloaderTypeOK
<1> SUFFICES ASSUME ReloaderInit
             PROVE  ReloaderTypeOK
  OBVIOUS
<1>1. disk \in Generations /\ Valid(Files(disk))
  BY DEF ReloaderInit
<1>2. <<disk, disk, disk>> \in Seq(Generations) /\ Len(<<disk, disk, disk>>) = 3
  BY <1>1
<1>3. current \in Materials
  BY <1>1, <1>2, MaterialType DEF ReloaderInit, Files
<1>4. <<>> \in Seq(Generations) /\ Len(<<>>) = 0
  OBVIOUS
<1>5. [step |-> "idle", read |-> <<>>, cur |-> current] \in ReloadCall
  BY <1>3, <1>4 DEF ReloadCall
<1>6. \A p \in Callers :
        reload[p] = [step |-> "idle", read |-> <<>>, cur |-> current]
  BY DEF ReloaderInit
<1>7. reload \in [Callers -> ReloadCall]
  BY <1>5 DEF ReloaderInit
<1>8. swaps \in 0..MaxSwaps
  BY MountAssumption DEF ReloaderInit
<1>9. \A p \in Callers : Len(reload[p].read) = 0 /\ reload[p].step = "idle"
  <2> SUFFICES ASSUME NEW p \in Callers
               PROVE  Len(reload[p].read) = 0 /\ reload[p].step = "idle"
    OBVIOUS
  <2>1. reload[p].read = <<>> /\ reload[p].step = "idle"
    BY <1>6
  <2> QED
    BY <1>4, <2>1
<1>10. failing \in BOOLEAN /\ stop \in {"no", "cancelled", "returned", "stopped"}
  BY DEF ReloaderInit
<1> QED
  BY <1>1, <1>3, <1>7, <1>8, <1>9, <1>10 DEF ReloaderTypeOK

\* A caller's record moves on to a step with nothing read.
LEMMA StepType ==
  ASSUME ReloaderTypeOK, NEW p \in Callers,
         NEW to \in {"idle", "digest", "load"}, Step(p, to)
  PROVE  /\ reload' \in [Callers -> ReloadCall]
         /\ \A o \in Callers :
              /\ Len(reload'[o].read) <= 3
              /\ reload'[o].step = "notify" => Len(reload'[o].read) = 3
<1>1. <<>> \in Seq(Generations) /\ Len(<<>>) = 0
  OBVIOUS
<1>2. reload'[p] = [step |-> to, read |-> <<>>, cur |-> reload[p].cur]
  BY DEF Step, ReloaderTypeOK, ReloadCall
<1>3. \A o \in Callers \ {p} : reload'[o] = reload[o]
  BY DEF Step, ReloaderTypeOK
<1>4. reload' = [o \in Callers |-> reload'[o]]
  BY DEF Step, ReloaderTypeOK
<1>5. reload'[p] \in ReloadCall
  BY <1>1, <1>2 DEF ReloaderTypeOK, ReloadCall
<1>6. reload' \in [Callers -> ReloadCall]
  BY <1>3, <1>4, <1>5 DEF ReloaderTypeOK
<1> QED
  BY <1>1, <1>2, <1>3, <1>6 DEF ReloaderTypeOK

LEMMA ReloaderStepType ==
  ASSUME ReloaderTypeOK, [ReloaderNext]_reloaderVars
  PROVE  ReloaderTypeOK'
<1>1. ASSUME NEW p \in Callers, Reload(p)
      PROVE  ReloaderTypeOK'
  <2>1. <<>> \in Seq(Generations) /\ Len(<<>>) = 0
    OBVIOUS
  <2> QED
    BY <1>1, <2>1 DEF Reload, ReloaderTypeOK, ReloadCall
<1>2. ASSUME NEW p \in Callers, Read(p)
      PROVE  ReloaderTypeOK'
  <2> DEFINE longer == Append(reload[p].read, disk)
  <2>1. longer \in Seq(Generations) /\ Len(longer) <= 3
    BY <1>2 DEF Read, ReloaderTypeOK, ReloadCall
  <2>2. reload' = [reload EXCEPT ![p].read = longer]
    BY <1>2 DEF Read
  <2> HIDE DEF longer
  <2>3. reload' \in [Callers -> ReloadCall]
    BY <2>1, <2>2 DEF ReloaderTypeOK, ReloadCall
  <2>4. reload'[p].step # "notify" /\ reload'[p].read = longer
    BY <1>2, <2>2 DEF Read, ReloaderTypeOK, ReloadCall
  <2>5. \A o \in Callers \ {p} : reload'[o] = reload[o]
    BY <2>2 DEF ReloaderTypeOK
  <2> QED
    BY <1>2, <2>1, <2>3, <2>4, <2>5 DEF Read, ReloaderTypeOK
<1>3. ASSUME NEW p \in Callers,
             ReadFails(p) \/ Unchanged(p) \/ Changed(p) \/ Rejected(p) \/ Notify(p)
      PROVE  ReloaderTypeOK'
  BY <1>3, StepType
  DEF ReadFails, Unchanged, Changed, Rejected, Notify, ReloaderTypeOK
<1>4. ASSUME NEW p \in Callers, Publish(p)
      PROVE  ReloaderTypeOK'
  <2>1. current' \in Materials
    BY <1>4, MaterialType DEF Publish, Loaded, ReloaderTypeOK, ReloadCall
  <2> QED
    BY <1>4, <2>1 DEF Publish, Loaded, ReloaderTypeOK, ReloadCall
<1>5. CASE World
  BY <1>5, MountAssumption
  DEF World, Cancel, PollerReturns, StopReturns, Swap, ReloaderTypeOK
<1>6. CASE UNCHANGED reloaderVars
  BY <1>6 DEF reloaderVars, ReloaderTypeOK
<1> QED
  BY <1>1, <1>2, <1>3, <1>4, <1>5, <1>6 DEF ReloaderNext, Reloading

\* Whatever is mounted, torn or invalid, and however many call Reload: the
\* material in force is one that was validated as a whole.
THEOREM MaterialAlwaysValid == ReloaderSpec => []ReloaderTypeOK
<1> QED
  BY ReloaderInitType, ReloaderStepType, PTL DEF ReloaderSpec

-----------------------------------------------------------------------------
(***************************************************************************)
(* Stop.                                                                    *)
(***************************************************************************)
\* Once the poller's goroutine returned, no tick starts a Reload any more.
PollerGone == stop \in {"returned", "stopped"} => reload[poller].step = "idle"

LEMMA PollerGoneStep ==
  ASSUME ReloaderTypeOK, PollerGone, [ReloaderNext]_reloaderVars
  PROVE  PollerGone'
<1> USE CallerAssumption DEF PollerGone
<1>1. ASSUME NEW p \in Callers, p # poller, Reload(p) \/ Reloading(p) \/ Notify(p)
      PROVE  PollerGone'
  <2>1. stop' = stop /\ reload'[poller] = reload[poller]
    BY <1>1
    DEF Reload, Reloading, Read, ReadFails, Unchanged, Changed, Rejected,
        Publish, Notify, Step, ReloaderTypeOK
  <2> QED
    BY <2>1
<1>2. ASSUME Reload(poller) \/ Reloading(poller) \/ Notify(poller)
      PROVE  PollerGone'
  <2>1. stop' = stop
    BY <1>2
    DEF Reload, Reloading, Read, ReadFails, Unchanged, Changed, Rejected,
        Publish, Notify
  <2>2. reload[poller].step # "idle" \/ stop \in {"no", "cancelled"}
    BY <1>2
    DEF Reload, Reloading, Read, ReadFails, Unchanged, Changed, Rejected,
        Publish, Notify, DigestRead, Loaded
  <2>3. stop \notin {"returned", "stopped"}
    BY <2>2
  <2> QED
    BY <2>1, <2>3
<1>3. CASE World
  BY <1>3 DEF World, Cancel, PollerReturns, StopReturns, Swap
<1>4. CASE UNCHANGED reloaderVars
  BY <1>4 DEF reloaderVars
<1> QED
  BY <1>1, <1>2, <1>3, <1>4 DEF ReloaderNext

\* After Stop returned the poller is not reloading: nothing publishes or runs
\* callbacks behind its back (Reloader.Stop).
THEOREM StopQuiets == ReloaderSpec => []StoppedIsQuiet
<1>1. ReloaderInit => PollerGone
  BY DEF ReloaderInit, PollerGone
<1>2. PollerGone => StoppedIsQuiet
  BY DEF PollerGone, StoppedIsQuiet
<1> QED
  BY <1>1, <1>2, MaterialAlwaysValid, PollerGoneStep, PTL DEF ReloaderSpec
=============================================================================
