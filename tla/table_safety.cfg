SPECIFICATION Spec
CONSTANTS
    t1 = t1
    t2 = t2
    p = p
    q = q
    a1 = a1
    a2 = a2
    Null = Null
    Threads <- TwoThreads
    PidOf <- TwoPids
    Addresses <- TwoAddresses
    MAX_CLIENTS = 2
    WaitLoops = 0
    ChannelFlags <- Proper
SYMMETRY Renaming
VIEW View
INVARIANTS
    TypeOK
    TableIsSound
    DeviceOutlivesCalls
    NoLostWakeup
    DeletionGoesOn
CHECK_DEADLOCK FALSE
