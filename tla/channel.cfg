SPECIFICATION Spec
CONSTANTS
    r1 = r1
    r2 = r2
    Nobody = Nobody
    Readers <- TwoReaders
    row_count = 2
    avg_divisor = 2
    WaitLoops = 1
    MaxSample = 16
SYMMETRY Symmetry
INVARIANTS
    TypeOK
    RefusedOnlyAfterOvertaking
    NoSampleTwice
PROPERTIES
    CopiedBufferIsStable
    StreamSpec
CHECK_DEADLOCK FALSE
