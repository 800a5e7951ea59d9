SPECIFICATION FairSpec
CONSTANTS
    c1 = c1
    c2 = c2
    None = None
    Callers = {c1, c2}
    NumHdma = 1
    NumCpus = 1
    FifoSize = 1
    LoopLimit = 1
    DescAddrs <- OneArea
    DescOf <- SharedArea
    Ops = {"in"}
    Reported = {"stop"}
    Env = {"timeout"}
PROPERTY
    IoctlReturns
CHECK_DEADLOCK FALSE
