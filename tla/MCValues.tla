------------------------------ MODULE MCValues ------------------------------
(***************************************************************************)
(* The parts that work on values: the handles and the conversions of a     *)
(* subclass of DebugSession, and a test's assertion about output.  They    *)
(* share no state, so each is run on its own.                              *)
(***************************************************************************)
EXTENDS Handles, Conversion, OutputAssertion

MCNumbers == -1..3
MCPaths   == UNION {[1..n -> Segments] : n \in 1..3}

MCExpectations == UNION {[1..n -> {"a", "b"}] : n \in 1..3}
MCPieces       == UNION {[1..n -> {"a", "b"}] : n \in 0..2}

VARIABLE part

allVars == <<handlesVars, conversionVars, outputVars, part>>

Init ==
    /\ HandlesInit /\ ConversionInit /\ OutputInit
    /\ part \in {"handles", "conversion", "output"}
    /\ part # "output" => expected = <<"a">> /\ timerRuns

Next ==
    /\ UNCHANGED part
    /\ \/ /\ part = "handles"
          /\ HandlesNext
          /\ UNCHANGED <<conversionVars, outputVars>>
       \/ /\ part = "conversion"
          /\ ConversionNext
          /\ UNCHANGED <<handlesVars, outputVars>>
       \/ /\ part = "output"
          /\ OutputNext
          /\ UNCHANGED <<handlesVars, conversionVars>>

Spec == Init /\ [][Next]_allVars
=============================================================================
