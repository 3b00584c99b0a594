SPECIFICATION FairSpec
CONSTANTS
    ADC_BUF_SIZE = 13
    PointerPairs = 8
    Channels <- ZeroToTwo
    InitChannels = 2
    RecNumbers = 3
    MaxFrames = 6
    MaxCommands = 4
INVARIANTS
    TypeOK
    PointerMatchesSlot
    TogglesInStep
PROPERTIES
    CopiedSlotIsStable
    FramesSpec
    OverrunReported
CHECK_DEADLOCK FALSE
