CONSTANTS
    Waiters = {w1, w2, w3}
    Users = {u1, u2, u3}
    Devices = {d1, d2}
    NoDevice = NoDevice
    NoUser = NoUser
    MaxGlobal = 2
    MaxPerUser = 1
SPECIFICATION Spec
SYMMETRY Symmetry
INVARIANTS SlotAccounting SlotLimits WorkConserving NoLostWakeup
PROPERTIES OwnedOrNothing AllocatorSpec
\* every request may end, and then nothing is left to do
CHECK_DEADLOCK FALSE
