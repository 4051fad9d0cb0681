CONSTANTS
    w1 = w1
    w2 = w2
    w3 = w3
    LeasedRuns = {l1, f1}
    FastbotRuns = {f1}
    PlainRuns = {p1}
    Installs = {i1}
    Streams = {s1}
    Devices = {d1}
    DeviceOf <- OneDevice
    UserOf <- OneUser
    Users = {u1}
    NoRun = NoRun
    NoDevice = NoDevice
    MaxGlobal = 2
    MaxPerUser = 2
    Operations = {"crash", "sweep", "unlock", "reboot"}
SPECIFICATION MixSpec
INVARIANTS DeviceExclusive NoSlotLeaks DeviceLeftClean
PROPERTIES WaitersHear EverybodyEnds
\* every run may end, and then nothing is left to do
CHECK_DEADLOCK FALSE
