--------------------------- MODULE OutputAssertion ---------------------------
(***************************************************************************)
(* DebugClient.assertOutput (testSupport/src/debugClient.ts): a promise    *)
(* about the text a program prints, which arrives in 'output' events cut   *)
(* anywhere.  A text is a sequence of characters.                          *)
(***************************************************************************)
EXTENDS Sequences, SequencesExt

CONSTANTS
    Expectations,   \* the texts a test may expect
    Pieces,         \* the texts an event of the category may bring
    MaxHeard        \* bound on the text printed

ASSUME OutputAssumption ==
    /\ Expectations \subseteq Seq(STRING) \ {<<>>}
    /\ Pieces \subseteq Seq(STRING)
    /\ MaxHeard \in Nat

VARIABLES
    expected,       \* what the test expects
    output,         \* what the events of the category have brought so far
    timerRuns,      \* there is a timer, and it is not cleared
    verdict,        \* how the promise is settled
    heard           \* history: all that was printed

outputVars == <<expected, output, timerRuns, verdict, heard>>

\* A plausible bug: the text may be anywhere.
OccursIn(s, t) == \E k \in 0 .. Len(t) : IsPrefix(s, SubSeq(t, k + 1, Len(t)))
StartsWith(s, t) == IsPrefix(s, t)

\* The first call of resolve or reject counts.
Settle(how) == verdict' = IF verdict = "pending" THEN how ELSE verdict

\* The listener is never taken off; only a match clears the timer.
OnOutput(piece) ==
    /\ Len(heard) + Len(piece) <= MaxHeard
    /\ heard' = heard \o piece
    /\ output' = output \o piece
    /\ IF IsPrefix(expected, output')
         THEN Settle("resolved") /\ timerRuns' = FALSE
         ELSE /\ timerRuns' = timerRuns
              /\ IF StartsWith(output', expected) THEN UNCHANGED verdict
                                                  ELSE Settle("rejected")
    /\ UNCHANGED expected

OutputTimeout ==
    /\ timerRuns
    /\ timerRuns' = FALSE
    /\ Settle("timeout")
    /\ UNCHANGED <<expected, output, heard>>

\* There is no timer in server mode.
OutputInit ==
    /\ expected \in Expectations
    /\ timerRuns \in BOOLEAN
    /\ output = <<>> /\ heard = <<>> /\ verdict = "pending"

OutputNext == OutputTimeout \/ \E piece \in Pieces : OnOutput(piece)

OutputSpec == OutputInit /\ [][OutputNext]_outputVars

-----------------------------------------------------------------------------
Judgement(text) ==
    IF IsPrefix(expected, text) THEN "resolved"
    ELSE IF IsPrefix(text, expected) THEN "pending" ELSE "rejected"

\* The verdict depends on the text printed and not on how it was cut into events;
\* it is never late, and what is printed afterwards does not change it
\* (debugClient.ts:413-427).
CutsDoNotMatter == verdict # "timeout" => verdict = Judgement(heard)
=============================================================================
