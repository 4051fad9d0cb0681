CONSTANTS
    CaseRuns = {c1, c2}
    ScenarioRuns = {s1, s2}
    Streams = {w1}
    TheCase = TheCase
    Devices = {d1}
    DeviceOf <- OneDevice
    UserOf <- OneUser
    Users = {u1}
    NoRun = NoRun
    NoDevice = NoDevice
    MaxGlobal = 2
    MaxPerUser = 2
    MaxCancels = 1
    Happenings = {"unlock", "disconnect", "dbfault"}
SPECIFICATION PartiesSpec
SYMMETRY Symmetry
INVARIANTS RowsSettle MixInOrder
\* every run may end, and then nothing is left to do
CHECK_DEADLOCK FALSE
