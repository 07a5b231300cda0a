---------------------------- MODULE RequestReply ----------------------------
(***************************************************************************)
(* What a caller of sendRequest is promised: the callback of every request *)
(* is called exactly once, with the peer's answer or with a timeout.       *)
(*                                                                         *)
(* Module ProtocolServer implements it with a map of pending callbacks and *)
(* timers that nobody clears; module DebugClient, which knows no timeouts  *)
(* of requests, implements its safety part.                                *)
(***************************************************************************)
EXTENDS Naturals, Sequences

CONSTANT Ids        \* what requests are known by

Outcomes == {"response", "timeout"}

VARIABLES
    asked,          \* the requests made with a callback
    outcome         \* per request, the calls of its callback

vars == <<asked, outcome>>

Init ==
    /\ asked = {}
    /\ outcome = [s \in Ids |-> <<>>]

Ask(s) ==
    /\ s \notin asked
    /\ asked' = asked \cup {s}
    /\ UNCHANGED outcome

Complete(s, o) ==
    /\ s \in asked
    /\ outcome[s] = <<>>
    /\ outcome' = [outcome EXCEPT ![s] = <<o>>]
    /\ UNCHANGED asked

Next ==
    \E s \in Ids : Ask(s) \/ \E o \in Outcomes : Complete(s, o)

SafeSpec == Init /\ [][Next]_vars

Spec ==
    /\ SafeSpec
    /\ \A s \in Ids : WF_vars(\E o \in Outcomes : Complete(s, o))
=============================================================================
