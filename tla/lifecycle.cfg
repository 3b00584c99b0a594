SPECIFICATION Spec
CONSTANTS
    f1 = f1
    f2 = f2
    none = none
    Files <- TwoFiles
    None <- none
    MaxFaults = 1
    MaxFailed = 1
    MaxUses = 2
SYMMETRY Symmetry
VIEW View
INVARIANTS
    TypeOK
    OpenersCounted
    UrbNotRefilled
    FlowKept
    RunningMeansSampling
    StoppedWhenClosed
    NothingLeftBehind
    HandlerHasTable
    NobodyStuck
CHECK_DEADLOCK FALSE
