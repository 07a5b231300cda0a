--------------------------- MODULE MessageChannel ---------------------------
(***************************************************************************)
(* What the wire of the Debug Adapter Protocol promises to the two ends:   *)
(* the messages written by one end are taken by the other one at a time,   *)
(* in the order they were written, unaltered, none lost and none repeated. *)
(* An empty body carries no message: it is taken and handed to nobody.     *)
(*                                                                         *)
(* Module Framing implements this specification by Content-Length headers  *)
(* over a byte stream that is cut into arbitrary chunks.                   *)
(***************************************************************************)
EXTENDS Naturals, Sequences

CONSTANT Bodies     \* the message bodies, sequences of bytes

VARIABLES
    sent,           \* every body written so far, oldest first
    taken,          \* how many of them the receiver has taken
    delivered       \* the bodies handed to the receiver's message handler

vars == <<sent, taken, delivered>>

Init ==
    /\ sent = <<>>
    /\ taken = 0
    /\ delivered = <<>>

Send(body) ==
    /\ sent' = Append(sent, body)
    /\ UNCHANGED <<taken, delivered>>

Take ==
    /\ taken < Len(sent)
    /\ taken' = taken + 1
    /\ delivered' = IF sent[taken + 1] = <<>>
                      THEN delivered
                      ELSE Append(delivered, sent[taken + 1])
    /\ UNCHANGED sent

Next ==
    \/ \E body \in Bodies : Send(body)
    \/ Take

SafeSpec == Init /\ [][Next]_vars

Spec == SafeSpec /\ WF_vars(Take)
=============================================================================
