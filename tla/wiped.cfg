SPECIFICATION Spec
CONSTANTS
    r1 = r1
    r2 = r2
    Nobody = Nobody
    Readers <- OneReader
    row_count = 2
    avg_divisor = 1
    WaitLoops = 2
    MaxSample = 6
INVARIANTS
    WrittenRowsSurvive
CHECK_DEADLOCK FALSE
