-------------------------- MODULE MCProtocolServer --------------------------
(***************************************************************************)
(* Small instances of ProtocolServer.                                      *)
(***************************************************************************)
EXTENDS ProtocolServer

CONSTANTS r1

MCResponses == {r1}
=============================================================================
