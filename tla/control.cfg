SPECIFICATION Spec
CONSTANTS
    EP0_BUFFER_SIZE = 2
    DescriptorLength <- TwoDescriptors
    wLengths <- TwoLengths
    bNumConfigurations = 2
    MaxAddress = 1
INVARIANTS
    TypeOK
    RequestIsTheHosts
    DataStageExact
    DeviceInStep
    NeverDeaf
    PacketExpected
PROPERTIES
    TransferEnds
CHECK_DEADLOCK FALSE
