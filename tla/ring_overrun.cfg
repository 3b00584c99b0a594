SPECIFICATION Spec
CONSTANTS
    ADC_BUF_SIZE = 13
    PointerPairs = 8
    Channels <- ZeroToTwo
    InitChannels = 2
    RecNumbers = 3
    MaxFrames = 6
    MaxCommands = 2
INVARIANTS
    NothingAfterOverrun
CHECK_DEADLOCK FALSE
