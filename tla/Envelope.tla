------------------------------- MODULE Envelope -------------------------------
(***************************************************************************)
(* The launch envelope (internal/envelope envelope.go Parse): one strictly    *)
(* decoded document that names the launch and declares its inputs.  Of a      *)
(* field only its agreement with its pattern is kept.                         *)
(***************************************************************************)
EXTENDS Naturals, Sequences, FiniteSetsExt

CONSTANTS
  MaxInputs,    \* 64 in the code
  NoComponent   \* the envelope carries none

JobKinds == {"codegen", "validator", "preview", "parser", "migration"}
Allocated == {"componentId", "puckType", "packageName"}

\* `patterns' is whether ids, sequences and the deadline match their patterns,
\* `sound' whether the named parts of a component match theirs.
Component == [revision : BOOLEAN, named : SUBSET Allocated, sound : BOOLEAN]
Input == [name : STRING, digest : STRING, handle : STRING, typed : BOOLEAN]
Document ==
  [json : {"ok", "unknown field", "trailing data"}, schemaVersion : Nat,
   launchKey : STRING, patterns : BOOLEAN, jobKind : STRING,
   component : Component \cup {NoComponent}, inputs : Seq(Input)]

ComponentWhole(c) ==
  /\ c.revision
  /\ c.named \in {{}, Allocated}
  /\ c.named = Allocated => c.sound

\* Mutant: a repeated name is accepted.
InputsTyped(e) == \A i \in DOMAIN e.inputs : e.inputs[i].typed

InputsDistinct(e) ==
  /\ \A i \in DOMAIN e.inputs : e.inputs[i].typed
  /\ \A i, j \in DOMAIN e.inputs : e.inputs[i].name = e.inputs[j].name => i = j

Accepted(e) ==
  /\ e.json = "ok" /\ e.schemaVersion = 1
  /\ e.patterns /\ e.jobKind \in JobKinds
  /\ e.component # NoComponent => ComponentWhole(e.component)
  /\ Len(e.inputs) <= MaxInputs
  /\ InputsDistinct(e)

\* What the server keeps of the declared inputs: digests and handles are
\* written one input after another, a handle only when there is one.
InputNames(e) == {e.inputs[i].name : i \in DOMAIN e.inputs}
Entries(e, n) == {i \in DOMAIN e.inputs : e.inputs[i].name = n}
Handled(e, n) == {i \in Entries(e, n) : e.inputs[i].handle # ""}
NewInputs(e) ==
  [declared |-> [n \in InputNames(e) |-> e.inputs[Max(Entries(e, n))].digest],
   handles |-> [n \in {m \in InputNames(e) : Handled(e, m) # {}} |->
                  e.inputs[Max(Handled(e, n))].handle]]
=============================================================================
