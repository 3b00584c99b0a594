SPECIFICATION FairSpec
CONSTANTS
    t1 = t1
    t2 = t2
    p = p
    q = q
    a1 = a1
    a2 = a2
    Null = Null
    Threads <- TwoThreads
    PidOf <- OnePid
    Addresses <- TwoAddresses
    MAX_CLIENTS = 1
    WaitLoops = 1
    ChannelFlags <- Proper
PROPERTIES
    SlowClientSettled
    DeviceIsFreed
CHECK_DEADLOCK FALSE
