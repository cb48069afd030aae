------------------------------- MODULE MCRelay -------------------------------
(***************************************************************************)
(* Small instances of Relay.  An id comes with two contents and from two     *)
(* instances; deadlines lie before and past the attempt's.  The timers keep  *)
(* the order of the defaults: read, write, call, relay.                      *)
(***************************************************************************)
EXTENDS Relay, TLC

CONSTANTS c1, c2

Ask(kind, content, deadline, fit) ==
  [kind |-> kind, id |-> "x", content |-> content, deadline |-> deadline, fit |-> fit]

With(actor, requests) == [requests |-> requests, actor |-> actor]

\* Tool calls that meet, and model calls with and without a deadline.
Contending ==
  {With(TRUE, {Ask("mcp", "a", NoDeadline, "ok"), Ask("mcp", "b", 7, "ok")}),
   With(TRUE, {Ask("model", "a", NoDeadline, "ok"), Ask("model", "a", 2, "ok")})}

\* Every kind of request, kind by kind: calls of two kinds never meet.
Models ==
  {Ask("model", "a", NoDeadline, "ok"), Ask("model", "a", 1, "ok"),
   Ask("model", "a", NoDeadline, "incomplete")}
Tools ==
  {Ask("mcp", "a", NoDeadline, "ok"), Ask("mcp", "a", 1, "ok"),
   Ask("mcp", "a", BadDeadline, "ok"), Ask("mcp", "a", NoDeadline, "large")}
Searches == {Ask("knowledge", "a", NoDeadline, "ok")}
Mixed == {With(actor, s) : actor \in BOOLEAN, s \in {Models, Tools, Searches}}

\* Two instances with a connection each, of which neither is special.
Each == [c \in {c1, c2} |-> c]
Alike == Permutations({c1, c2})
One == [c \in {c1} |-> "A"]
=============================================================================
