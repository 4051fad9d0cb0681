----------------------------- MODULE MCRunControl -----------------------------
EXTENDS RunControl, TLC

\* All runs want the same device, for the same user.
OneDevice == [r \in Runs |-> CHOOSE d \in Devices : TRUE]
OneUser == [r \in Runs |-> CHOOSE u \in Users : TRUE]
Symmetry == Permutations(CaseRuns) \cup Permutations(ScenarioRuns) \cup Permutations(Streams)

\* Who meets whom: executions of a scenario with cancels, these or case runs with a
\* WebSocket run and no cancel, and one case run with a WebSocket run and cancels.
PartiesSpec ==
    /\ \/ InitFor(ScenarioRuns, 0)
       \/ InitFor(ScenarioRuns \cup Streams, MaxCancels)
       \/ InitFor(CaseRuns \cup Streams, MaxCancels)
       \/ \E c \in CaseRuns : InitFor({c} \cup Streams, 0)
    /\ [][Next]_vars

(* Registry and slots are in order also when kinds of runs meet, and signals reach the  *)
(* run that drives the device, if all are executions of a scenario (a WebSocket run     *)
(* takes the event of others).                                                         *)
MixInOrder ==
    /\ RegistryInOrder
    /\ (\A r \in CaseRuns \cup Streams : outcome[r] = "none" /\ pc[r] = "done")
       => OccupantHearsDevice
=============================================================================
