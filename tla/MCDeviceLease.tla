---------------------------- MODULE MCDeviceLease ----------------------------
EXTENDS DeviceLease, TLC

\* All runs want the same device, for the same user.
OneDevice == [r \in Runs |-> CHOOSE d \in Devices : TRUE]
OneUser == [r \in Runs |-> CHOOSE u \in Users : TRUE]

\* Runs of the same kind are interchangeable.
Symmetry == Permutations(FastbotRuns)
=============================================================================
