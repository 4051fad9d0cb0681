---------------------------- MODULE MCStepEditing ----------------------------
EXTENDS StepEditing, TLC

CONSTANTS c1, c2

\* The web client sends version tokens; an old app sends none, another the time stamp.
MCGuards == c1 :> {{}, {"version"}} @@ c2 :> {{"version"}, {"stamp"}}

\* Keys are only compared for equality.
KeySymmetry == Permutations(RowIds)

\* A bound: after two requests that wrote without a token nothing is followed further.
OneWild == Cardinality(wild) <= 1
=============================================================================
