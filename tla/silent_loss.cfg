SPECIFICATION Spec
CONSTANTS
    r1 = r1
    r2 = r2
    Nobody = Nobody
    Readers <- OneReader
    row_count = 1
    avg_divisor = 1
    WaitLoops = 2
    MaxSample = 9
INVARIANTS
    NoSilentLoss
CHECK_DEADLOCK FALSE
