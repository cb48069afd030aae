------------------------------ MODULE MCReloader ------------------------------
(***************************************************************************)
(* A rotation of the certificate and of the CA in three mounted sets, a set *)
(* whose certificate expired, and one whose bundle holds a certificate that *)
(* is no CA.                                                                *)
(***************************************************************************)
EXTENDS Reloader

Set(pair, ca) == [cert |-> pair, key |-> pair, ca |-> ca]

Mounts ==
  [g \in {"old", "both", "new", "expired", "bad"} |->
     CASE g = "old" -> Set("p1", {"r1"})
       [] g = "both" -> Set("p2", {"r1", "r2"})
       [] g = "new" -> Set("p2", {"r2"})
       [] g = "expired" -> Set("p3", {"r2"})
       [] g = "bad" -> Set("p2", {"r2", "leaf"})]
MountNames == DOMAIN Mounts
=============================================================================
