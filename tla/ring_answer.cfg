SPECIFICATION Spec
CONSTANTS
    ADC_BUF_SIZE = 13
    PointerPairs = 8
    Channels <- ZeroToTwo
    InitChannels = 2
    RecNumbers = 3
    MaxFrames = 3
    MaxCommands = 2
INVARIANTS
    AnswerAccepted
CHECK_DEADLOCK FALSE
