SPECIFICATION IrqFairSpec
CONSTANTS
    NumHdma = 1
    FifoSize = 2
    LoopLimit = 2
    Reported = {"stop", "abort"}
INVARIANT
    IrqTypeOK
PROPERTIES
    StatusDrained
    KfifoEmpties
    StopWakes
