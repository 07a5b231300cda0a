----------------------------- MODULE MCFraming ------------------------------
(***************************************************************************)
(* Small instances of Framing.                                             *)
(***************************************************************************)
EXTENDS Framing

\* No byte, one character of two bytes, and a body that looks like the end of a
\* header: CR LF CR LF.
MCBodies == { <<>>, <<Octet(0), Continuation>>, <<Crlf, Crlf>> }

\* Bodies whose last byte is a line end put the next header on a line of its own.
MCNoisyBodies == { <<Octet(0)>>, <<Octet(0), Crlf>>, <<Crlf, Crlf>> }

\* What the theorems about foreign text ask of bodies holds of these.
ASSUME NoHeaderAssumption == BodiesAreNoHeaders
=============================================================================
