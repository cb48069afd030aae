------------------------------ MODULE MCChannel ------------------------------
(***************************************************************************)
(* A rotation of the CA in three mounted sets and a set that is refused.     *)
(***************************************************************************)
EXTENDS Channel

Set(pair, ca) == [cert |-> pair, key |-> pair, ca |-> ca]

Mounts ==
  [g \in {"old", "both", "new", "expired"} |->
     CASE g = "old" -> Set("p1", {"r1"})
       [] g = "both" -> Set("p1", {"r1", "r2"})
       [] g = "new" -> Set("p2", {"r2"})
       [] g = "expired" -> Set("p3", {"r2"})]
MountNames == DOMAIN Mounts
=============================================================================
