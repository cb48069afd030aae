------------------------------ MODULE MCTransfer ------------------------------
(***************************************************************************)
(* A small instance of Transfer: two uploads of one content under different *)
(* media types, so that they contend for a command identity, one of a       *)
(* content whose digest shares the part the command identity carries, and    *)
(* one of a class there is none of.                                         *)
(***************************************************************************)
EXTENDS Transfer

CONSTANTS w1, w2, b1, b2

Item(class, media, bytes) == [class |-> class, media |-> media, bytes |-> bytes]

Rivals ==
  {Item("stage", "json", b1), Item("stage", "text", b1), Item("stage", "json", b2),
   Item("draft", "json", b1)}

Digests == [b \in Bytes |-> IF b = b1 THEN "d1" ELSE "d2"]
Prefixes == [d \in {"d1", "d2"} |-> "d"]
=============================================================================
