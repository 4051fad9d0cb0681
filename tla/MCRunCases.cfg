CONSTANTS
    CaseRuns = {c1, c2}
    ScenarioRuns = {}
    Streams = {}
    TheCase = TheCase
    Devices = {d1}
    DeviceOf <- OneDevice
    UserOf <- OneUser
    Users = {u1}
    NoRun = NoRun
    NoDevice = NoDevice
    MaxGlobal = 2
    MaxPerUser = 2
    MaxCancels = 2
    Happenings = {"delete"}
SPECIFICATION FairSpec
INVARIANTS OccupantHearsDevice RegistryInOrder RowsSettle CancelSticks
PROPERTIES CancelledRunEnds
\* every run may end, and then nothing is left to do
CHECK_DEADLOCK FALSE
