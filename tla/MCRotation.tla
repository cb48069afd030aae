------------------------------ MODULE MCRotation ------------------------------
(***************************************************************************)
(* A CA rotation in three mounted sets: the old root, both, the new root.    *)
(***************************************************************************)
EXTENDS Rotation, TLC

CONSTANTS c1, c2, h1, h2, q1, q2

Set(pair, ca) == [cert |-> pair, key |-> pair, ca |-> ca]

Mounts ==
  [g \in {"old", "both", "new"} |->
     CASE g = "old" -> Set("p1", {"r1"})
       [] g = "both" -> Set("p1", {"r1", "r2"})
       [] g = "new" -> Set("p2", {"r2"})]
MountNames == DOMAIN Mounts

ServerSwap == Permutations({c1, c2})
PoolSwap == Permutations({h1, h2}) \cup Permutations({q1, q2})
=============================================================================
