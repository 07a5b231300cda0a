------------------------------ MODULE MCLogger ------------------------------
(***************************************************************************)
(* Small instances of Logger: two sessions of a server.                    *)
(***************************************************************************)
EXTENDS Logger
=============================================================================
