------------------------ MODULE MCExecutionLimiter ------------------------
EXTENDS ExecutionLimiter, TLC

\* Requests, users and devices are interchangeable.
Symmetry == Permutations(Waiters) \cup Permutations(Users) \cup Permutations(Devices)
=============================================================================
