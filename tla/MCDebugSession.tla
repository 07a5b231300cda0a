--------------------------- MODULE MCDebugSession ---------------------------
(***************************************************************************)
(* Small instances of DebugSession: an initialize, a launch, a disconnect  *)
(* and an unknown request.  On a stream the subclass handles the launch    *)
(* request, where there is a host it handles the disconnect.               *)
(***************************************************************************)
EXTENDS DebugSession, TLC

CONSTANTS init, launch, bye, odd

StdioRequests  == {init, launch, bye, odd}
InlineRequests == {init, launch, bye}

MCCommand ==
    [r \in Responses |-> CASE r = init -> "initialize" [] r = bye    -> "disconnect"
                           [] r = odd  -> "unknown"    [] r = launch -> "other"]
OwnLaunch     == {launch}
OwnDisconnect == {bye}

Arguments(format) ==
    [r \in Responses |-> [pathFormat |-> format, lines |-> {}, columns |-> {FALSE}]]

NativePaths   == Arguments("path")
ForeignPaths  == Arguments("uri")
OmittedFormat == Arguments("omitted")
=============================================================================
