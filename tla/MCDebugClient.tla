---------------------------- MODULE MCDebugClient ----------------------------
(***************************************************************************)
(* Small instance of DebugClient: a test of one adapter with the whole     *)
(* scenario, and a test that restarts.                                     *)
(***************************************************************************)
EXTENDS DebugClient

HitBreakpoint(port) ==
    [chains |-> Scenario \cup {"stop"}, breakpoint |-> TRUE, port |-> port,
     faults |-> {"exits", "repeats"}]
Launch ==
    [chains |-> {"launch", "stop"}, breakpoint |-> FALSE, port |-> FALSE,
     faults |-> {"repeats"}]
Configuration ==
    [chains |-> {"configuration", "launch"}, breakpoint |-> FALSE, port |-> FALSE,
     faults |-> {}]

MCTests ==
    {<<>>, <<HitBreakpoint(FALSE)>>, <<HitBreakpoint(TRUE)>>, <<Launch, Configuration>>}
=============================================================================
